---- MODULE Spec2Model ----
(***************************************************************************)
(* pgraft: replication and application pipeline of one node.               *)
(*                                                                         *)
(* The model covers the process-shared structures (cluster descriptor,     *)
(* worker state with its three circular buffers, key/value store), the     *)
(* client-facing KV replication path, the background worker loop, the      *)
(* commit callbacks the consensus engine invokes, and the two files the    *)
(* node writes.  The consensus engine is a black box: its leader, term,    *)
(* log and the commits it delivers are chosen nondeterministically.        *)
(***************************************************************************)
EXTENDS Integers, Sequences, FiniteSets, TLC

(***************************************************************************)
(* Bounds of the model                                                     *)
(***************************************************************************)
MAX_COMMANDS == 2        \* slots of the command queue and of the status buffer
MAX_APPLY_ENTRIES == 2   \* slots of the apply queue
KV_MAX_ENTRIES == 3      \* slots of the store's entries[] array
MaxIndex == 2            \* longest engine log
MaxRedeliver == 1        \* replays of an already delivered index
MaxTerm == 1             \* elections of the engine
MaxTime == 1             \* seconds of wall clock
APPLY_DATA_SIZE == 2     \* sizeof(entry->data) of an apply entry, scaled
MaxSubmit == 2           \* commands each concurrent submitter queues
MaxCalls == 3            \* statements issued by client sessions

(***************************************************************************)
(* Program constants                                                       *)
(***************************************************************************)
KEY_SIZE == 256          \* sizeof(entry->key)
VALUE_SIZE == 1024       \* sizeof(entry->value)
REFRESH_EVERY == 5       \* sleep_count % 5 == 0
ALIVE_CHECK == 10        \* sleep_count >= 10 resets the counter
LOG_ENTRY_FIELDS == 6    \* index|term|op|database|schema|sql

PGRAFT_KV_PUT == 1
PGRAFT_KV_DELETE == 2

NULL == "<NULL>"         \* a null char pointer

Keys == {"alpha"}
Values == {"1", "2"}
KeyTooLong == "key-of-256-bytes"
ValueTooLong == "value-of-1024-bytes"
ClientIds == {"pg_1"}
ThisNode == 1
OtherNode == ThisNode + 1

\* A length that takes the stand-in strings at their face value: the
\* statement on the limits of a put must tell it from strlen
strlen_of_name(s) == Len(s)

\* strlen() of the strings of the model; KeyTooLong stands for a 256-byte key
\* and ValueTooLong for a 1024-byte value
strlen(s) == IF s = KeyTooLong THEN KEY_SIZE
             ELSE IF s = ValueTooLong THEN VALUE_SIZE ELSE Len(s)

VARIABLES
    cluster,      \* pgraft_cluster_t in shared memory
    worker,       \* pgraft_worker_state_t in shared memory
    kv,           \* pgraft_kv_store_t in shared memory (g_kv_store)
    go,           \* the consensus engine as seen through its interface
    files,        \* the files on disk
    sleep_count,  \* pgraft_main's loop counter
    now,          \* time(NULL)
    ret,          \* what the last call returned to its caller
    proc,         \* position and locals of calls that are under way
    hist,         \* bookkeeping of accepted submissions and dequeues
    log_state     \* pgraft_log_state_t in shared memory (g_log_state)

vars == <<cluster, worker, kv, go, files, sleep_count, now, ret, proc, hist,
          log_state>>

(***************************************************************************)
(* Key/value store (pgraft_kv.c)                                           *)
(***************************************************************************)
ZeroEntry == [key |-> "", value |-> "", version |-> 0, log_index |-> 0,
              deleted |-> FALSE]

\* memset(g_kv_store, 0, ...) and the default values
EmptyStore == [entries |-> [i \in 0..(KV_MAX_ENTRIES - 1) |-> ZeroEntry],
               num_entries |-> 0, total_operations |-> 0,
               last_applied_index |-> 0, puts |-> 0, deletes |-> 0, gets |-> 0]

\* A lookup that does not skip deleted entries: the statements on what a
\* delete hides must tell it from pgraft_kv_find_entry_index
find_entry_index_any(store, key) ==
    LET hits == {i \in 0..(store.num_entries - 1) : store.entries[i].key = key}
    IN  IF hits = {} THEN -1
        ELSE CHOOSE i \in hits : \A j \in hits : i <= j

pgraft_kv_find_entry_index(store, key) ==
    LET hits == {i \in 0..(store.num_entries - 1) :
                    ~store.entries[i].deleted /\ store.entries[i].key = key}
    IN  IF hits = {} THEN -1
        ELSE CHOOSE i \in hits : \A j \in hits : i <= j

\* The result of a store operation: the store afterwards, the returned value,
\* whether elog(ERROR) left the function instead of a return, and whether
\* pgraft_kv_save_to_disk was called.
KvOutcome(store, result, error, save) ==
    [store |-> store, result |-> result, error |-> error, save |-> save]

\* A put whose update branch leaves the version as it was: the statement on
\* the version of an overwritten key must tell it from pgraft_kv_put
put_without_version_bump(store, key, value, log_index) ==
    IF key = NULL \/ value = NULL THEN KvOutcome(store, -1, TRUE, FALSE)
    ELSE IF strlen(key) >= KEY_SIZE THEN KvOutcome(store, -1, TRUE, FALSE)
    ELSE IF strlen(value) >= VALUE_SIZE THEN KvOutcome(store, -1, TRUE, FALSE)
    ELSE
    LET entry_index == pgraft_kv_find_entry_index(store, key)
        counted(s) == [s EXCEPT !.puts = @ + 1, !.total_operations = @ + 1,
                                !.last_applied_index = log_index]
    IN  IF entry_index >= 0
        THEN KvOutcome(counted([store EXCEPT
                 !.entries[entry_index].value = value,
                 !.entries[entry_index].log_index = log_index,
                 !.entries[entry_index].deleted = FALSE]), 0, FALSE, TRUE)
        ELSE IF store.num_entries >= KV_MAX_ENTRIES
        THEN KvOutcome(store, -1, TRUE, FALSE)
        ELSE KvOutcome(counted([store EXCEPT
                 !.entries[store.num_entries] =
                     [key |-> key, value |-> value, version |-> 1,
                      log_index |-> log_index, deleted |-> FALSE],
                 !.num_entries = @ + 1]), 0, FALSE, TRUE)

pgraft_kv_put(store, key, value, log_index) ==
    IF key = NULL \/ value = NULL THEN KvOutcome(store, -1, TRUE, FALSE)
    ELSE IF strlen(key) >= KEY_SIZE THEN KvOutcome(store, -1, TRUE, FALSE)
    ELSE IF strlen(value) >= VALUE_SIZE THEN KvOutcome(store, -1, TRUE, FALSE)
    ELSE
    LET entry_index == pgraft_kv_find_entry_index(store, key)
        counted(s) == [s EXCEPT !.puts = @ + 1, !.total_operations = @ + 1,
                                !.last_applied_index = log_index]
    IN  IF entry_index >= 0
        THEN KvOutcome(counted([store EXCEPT
                 !.entries[entry_index].value = value,
                 !.entries[entry_index].version = @ + 1,
                 !.entries[entry_index].log_index = log_index,
                 !.entries[entry_index].deleted = FALSE]), 0, FALSE, TRUE)
        ELSE IF store.num_entries >= KV_MAX_ENTRIES
        THEN KvOutcome(store, -1, TRUE, FALSE)
        ELSE KvOutcome(counted([store EXCEPT
                 !.entries[store.num_entries] =
                     [key |-> key, value |-> value, version |-> 1,
                      log_index |-> log_index, deleted |-> FALSE],
                 !.num_entries = @ + 1]), 0, FALSE, TRUE)

pgraft_kv_delete(store, key, log_index) ==
    IF key = NULL THEN KvOutcome(store, -1, TRUE, FALSE)
    ELSE
    LET entry_index == pgraft_kv_find_entry_index(store, key)
    IN  IF entry_index < 0 THEN KvOutcome(store, -1, FALSE, FALSE)
        ELSE KvOutcome([store EXCEPT
                 !.entries[entry_index].deleted = TRUE,
                 !.entries[entry_index].log_index = log_index,
                 !.entries[entry_index].version = @ + 1,
                 !.deletes = @ + 1, !.total_operations = @ + 1,
                 !.last_applied_index = log_index], 0, FALSE, TRUE)

\* A get that counts itself in gets only: the statement on the sum of the
\* counters must tell it from pgraft_kv_get
get_without_total(store, key) ==
    LET entry_index == pgraft_kv_find_entry_index(store, key)
    IN  IF entry_index < 0
        THEN [result |-> -1, value |-> NULL, version |-> 0, store |-> store]
        ELSE [result |-> 0, value |-> store.entries[entry_index].value,
              version |-> store.entries[entry_index].version,
              store |-> [store EXCEPT !.gets = @ + 1]]

\* get(key): the value and version a reader obtains, or -1 when not found
pgraft_kv_get(store, key) ==
    LET entry_index == pgraft_kv_find_entry_index(store, key)
    IN  IF entry_index < 0
        THEN [result |-> -1, value |-> NULL, version |-> 0, store |-> store]
        ELSE [result |-> 0, value |-> store.entries[entry_index].value,
              version |-> store.entries[entry_index].version,
              store |-> [store EXCEPT !.gets = @ + 1,
                                      !.total_operations = @ + 1]]

pgraft_kv_put_local(store, key, value) == pgraft_kv_put(store, key, value, 0)

pgraft_kv_delete_local(store, key) == pgraft_kv_delete(store, key, 0)

(***************************************************************************)
(* Log payloads (pgraft_json.c, pgraft_apply.c)                            *)
(*                                                                         *)
(* A payload is the byte string the engine replicates.  `first` is its     *)
(* first byte.  A JSON text is kept as the set of members it holds (`has`) *)
(* with their values, and `parses` tells whether json_tokener_parse        *)
(* accepts it.  A positional record index|term|op|database|schema|sql is   *)
(* kept as the number of '|'-separated tokens and its statement.           *)
(***************************************************************************)
Payload(first, parses, has, type, key, value, client_id, timestamp, nfields, sql) ==
    [first |-> first, parses |-> parses, has |-> has, type |-> type, key |-> key,
     value |-> value, client_id |-> client_id, timestamp |-> timestamp,
     nfields |-> nfields, sql |-> sql]

\* json_object_to_json_string of {"type":..,"key":..,["value":..,]"timestamp":..,
\* "client_id":..}; the value member is added only for a PUT with a value
pgraft_json_create_kv_operation(op_type, key, value, client_id, timestamp) ==
    IF op_type \notin {PGRAFT_KV_PUT, PGRAFT_KV_DELETE}
    THEN [result |-> -1, error |-> TRUE, json |-> NULL]
    ELSE [result |-> 0, error |-> FALSE,
          json |-> Payload("{", TRUE,
                     IF op_type = PGRAFT_KV_PUT /\ value # NULL
                     THEN {"type", "key", "value", "timestamp", "client_id"}
                     ELSE {"type", "key", "timestamp", "client_id"},
                     IF op_type = PGRAFT_KV_PUT THEN "kv_put" ELSE "kv_delete",
                     key,
                     IF op_type = PGRAFT_KV_PUT /\ value # NULL THEN value ELSE "",
                     client_id, timestamp, 0, "")]

\* Every failure of the parser is reported with elog(ERROR), which does not
\* return: `error` is then TRUE and the caller never sees `result`.
pgraft_json_parse_kv_operation(json_data) ==
    LET failed == [result |-> -1, error |-> TRUE, op_type |-> -1,
                   key |-> NULL, value |-> NULL]
    IN  IF ~json_data.parses THEN failed
        ELSE IF "type" \notin json_data.has THEN failed
        ELSE IF "key" \notin json_data.has THEN failed
        ELSE IF json_data.type = "kv_put"
        THEN IF "value" \notin json_data.has THEN failed
             ELSE [result |-> 0, error |-> FALSE, op_type |-> PGRAFT_KV_PUT,
                   key |-> json_data.key, value |-> json_data.value]
        ELSE IF json_data.type = "kv_delete"
        THEN [result |-> 0, error |-> FALSE, op_type |-> PGRAFT_KV_DELETE,
              key |-> json_data.key, value |-> NULL]
        ELSE failed

\* NULL when the record has fewer than 6 fields, else the statement to execute
pgraft_parse_log_entry(data) ==
    IF data.nfields < LOG_ENTRY_FIELDS THEN NULL ELSE data.sql

(***************************************************************************)
(* Apply pipeline (pgraft_apply.c)                                         *)
(***************************************************************************)
\* A failed put or delete, and an unknown operation, end in elog(ERROR).
pgraft_apply_kv_operation(store, raft_index, json_data) ==
    LET parsed == pgraft_json_parse_kv_operation(json_data)
    IN  IF parsed.error THEN KvOutcome(store, -1, TRUE, FALSE)
        ELSE
        LET out == IF parsed.op_type = PGRAFT_KV_PUT
                   THEN pgraft_kv_put_local(store, parsed.key, parsed.value)
                   ELSE pgraft_kv_delete_local(store, parsed.key)
        IN  IF out.result = 0 /\ ~out.error THEN out
            ELSE KvOutcome(out.store, -1, TRUE, out.save)

pgraft_record_applied_index(w, index) == [w EXCEPT !.last_applied_index = index]

\* SPI_connect() and SPI_execute() are the host's: their outcomes are inputs.
\* The result: the store and worker state afterwards, the returned value, and
\* whether elog(ERROR) left the function instead of a return.
pgraft_apply_entry_to_postgres(store, w, raft_index, data, spi_connect_ok, spi_ret) ==
    IF data.first = "{"
    THEN LET out == pgraft_apply_kv_operation(store, raft_index, data)
         IN  [store |-> out.store, save |-> out.save,
              worker |-> IF ~out.error /\ out.result = 0
                         THEN pgraft_record_applied_index(w, raft_index) ELSE w,
              result |-> out.result, error |-> out.error]
    ELSE IF pgraft_parse_log_entry(data) = NULL
    THEN [store |-> store, save |-> FALSE, worker |-> w, result |-> -1, error |-> FALSE]
    ELSE IF ~spi_connect_ok
    THEN [store |-> store, save |-> FALSE, worker |-> w, result |-> -1, error |-> FALSE]
    ELSE IF spi_ret < 0
    THEN [store |-> store, save |-> FALSE, worker |-> w, result |-> -1, error |-> FALSE]
    ELSE [store |-> store, save |-> FALSE,
          worker |-> pgraft_record_applied_index(w, raft_index),
          result |-> 0, error |-> FALSE]

(***************************************************************************)
(* Worker state and its circular buffers (pgraft.c, pgraft_util.c)         *)
(***************************************************************************)
ZeroCommand == [type |-> "0", node_id |-> 0, address |-> "", port |-> 0,
                cluster_id |-> "", log_data |-> "", log_index |-> 0,
                kv_key |-> "", kv_value |-> "", kv_client_id |-> "",
                status |-> "PENDING", error_message |-> "", timestamp |-> 0]

ZeroPayload == Payload("", FALSE, {}, "", "", "", "", 0, 0, "")

ZeroApplyEntry ==
    [raft_index |-> 0, data |-> ZeroPayload, data_len |-> 0, applied |-> FALSE]

\* pgraft_worker_get_state: the structure as first found in shared memory
InitWorker ==
    [node_id |-> 0, address |-> "127.0.0.1", port |-> 0, status |-> "STOPPED",
     command_head |-> 0, command_tail |-> 0, command_count |-> 0,
     commands |-> [i \in 0..(MAX_COMMANDS - 1) |-> ZeroCommand],
     status_head |-> 0, status_tail |-> 0, status_count |-> 0,
     status_commands |-> [i \in 0..(MAX_COMMANDS - 1) |-> ZeroCommand],
     apply_head |-> 0, apply_tail |-> 0, apply_count |-> 0,
     apply_queue |-> [i \in 0..(MAX_APPLY_ENTRIES - 1) |-> ZeroApplyEntry],
     last_applied_index |-> 0]

\* The slot is overwritten field by field: log_data and log_index keep what the
\* slot held before.
pgraft_queue_kv_command(w, type, key, value, client_id, t) ==
    IF w.command_count >= MAX_COMMANDS THEN [ok |-> FALSE, worker |-> w]
    ELSE [ok |-> TRUE,
          worker |-> [w EXCEPT
              !.commands[w.command_tail] =
                  [@ EXCEPT !.type = type, !.node_id = 0, !.address = "",
                            !.port = 0, !.cluster_id = "",
                            !.kv_key = IF key # NULL THEN key ELSE "",
                            !.kv_value = IF value # NULL THEN value ELSE "",
                            !.kv_client_id = IF client_id # NULL THEN client_id ELSE "",
                            !.status = "PENDING", !.error_message = "",
                            !.timestamp = t],
              !.command_tail = (@ + 1) % MAX_COMMANDS,
              !.command_count = @ + 1]]

\* A dequeue that takes the newest command instead of the oldest
dequeue_newest(w) ==
    IF w.command_count = 0 THEN [ok |-> FALSE, cmd |-> ZeroCommand, worker |-> w]
    ELSE LET last == (w.command_tail + MAX_COMMANDS - 1) % MAX_COMMANDS
         IN  [ok |-> TRUE, cmd |-> w.commands[last],
              worker |-> [w EXCEPT !.command_tail = last,
                                   !.command_count = @ - 1]]

pgraft_dequeue_command(w) ==
    IF w.command_count = 0 THEN [ok |-> FALSE, cmd |-> ZeroCommand, worker |-> w]
    ELSE [ok |-> TRUE, cmd |-> w.commands[w.command_head],
          worker |-> [w EXCEPT !.command_head = (@ + 1) % MAX_COMMANDS,
                               !.command_count = @ - 1]]

\* A copy into the status buffer that never drops a record
add_to_status_without_drop(w, cmd) ==
    [w EXCEPT !.status_commands[w.status_tail] = cmd,
              !.status_tail = (@ + 1) % MAX_COMMANDS,
              !.status_count = @ + 1]

pgraft_add_command_to_status(w, cmd) ==
    LET w1 == IF w.status_count >= MAX_COMMANDS
              THEN [w EXCEPT !.status_head = (@ + 1) % MAX_COMMANDS,
                             !.status_count = @ - 1]
              ELSE w
    IN  [w1 EXCEPT !.status_commands[w1.status_tail] = cmd,
                   !.status_tail = (@ + 1) % MAX_COMMANDS,
                   !.status_count = @ + 1]

\* The first record, from the head, that carries the timestamp is updated.
pgraft_update_command_status(w, timestamp, status, error_message) ==
    LET hits == {i \in 0..(w.status_count - 1) :
                    w.status_commands[(w.status_head + i) % MAX_COMMANDS].timestamp
                        = timestamp}
    IN  IF hits = {} THEN w
        ELSE LET i == CHOOSE h \in hits : \A j \in hits : h <= j
                 index == (w.status_head + i) % MAX_COMMANDS
             IN  [w EXCEPT !.status_commands[index].status = status,
                           !.status_commands[index].error_message = error_message]

pgraft_enqueue_apply_entry(w, raft_index, data, data_len) ==
    IF w.apply_count >= MAX_APPLY_ENTRIES THEN [ok |-> FALSE, worker |-> w]
    ELSE IF data_len > APPLY_DATA_SIZE THEN [ok |-> FALSE, worker |-> w]
    ELSE [ok |-> TRUE,
          worker |-> [w EXCEPT
              !.apply_queue[w.apply_tail] =
                  [raft_index |-> raft_index,
                   data |-> IF data_len > 0 THEN data
                            ELSE w.apply_queue[w.apply_tail].data,
                   data_len |-> data_len, applied |-> FALSE],
              !.apply_tail = (@ + 1) % MAX_APPLY_ENTRIES,
              !.apply_count = @ + 1]]

\* A dequeue that hands out the entry queued last: the statement on the order
\* of the apply queue must tell it from pgraft_dequeue_apply_entry
dequeue_apply_newest(w) ==
    IF w.apply_count = 0 THEN [ok |-> FALSE, entry |-> ZeroApplyEntry, worker |-> w]
    ELSE LET last == (w.apply_tail + MAX_APPLY_ENTRIES - 1) % MAX_APPLY_ENTRIES
         IN  [ok |-> TRUE, entry |-> w.apply_queue[last],
              worker |-> [w EXCEPT !.apply_tail = last, !.apply_count = @ - 1]]

pgraft_dequeue_apply_entry(w) ==
    IF w.apply_count = 0 THEN [ok |-> FALSE, entry |-> ZeroApplyEntry, worker |-> w]
    ELSE [ok |-> TRUE, entry |-> w.apply_queue[w.apply_head],
          worker |-> [w EXCEPT !.apply_head = (@ + 1) % MAX_APPLY_ENTRIES,
                               !.apply_count = @ - 1]]

(***************************************************************************)
(* Cluster descriptor (pgraft_core.c)                                      *)
(***************************************************************************)
\* pgraft_core_init_shared_memory: the defaults of a new segment
InitCluster ==
    [initialized |-> FALSE, node_id |-> -1, current_term |-> 0, leader_id |-> -1,
     state |-> "stopped", num_nodes |-> 0, nodes |-> <<>>]

pgraft_core_update_nodes(c, node_ids) ==
    IF ~c.initialized THEN c
    ELSE [c EXCEPT !.nodes = [i \in 1..Len(node_ids) |->
                                 [id |-> node_ids[i], port |-> 0, is_leader |-> FALSE]],
                   !.num_nodes = Len(node_ids)]

(***************************************************************************)
(* Files on disk                                                           *)
(***************************************************************************)
NoStateData == [leader_id |-> 0, term |-> 0, node_id |-> 0, nodes |-> <<>>]

\* A file: whether it exists, whether all of its content is there, the content
InitFiles ==
    [kv |-> [exists |-> FALSE, complete |-> FALSE, data |-> EmptyStore],
     state |-> [exists |-> FALSE, complete |-> FALSE, data |-> NoStateData],
     state_tmp |-> [exists |-> FALSE, complete |-> FALSE, data |-> NoStateData]]

\* fopen(path, "wb"), fwrite of the whole structure, fclose
pgraft_kv_save_to_disk(f, store) ==
    [f EXCEPT !.kv = [exists |-> TRUE, complete |-> TRUE, data |-> store]]

\* fopen of cluster_state.json.tmp, the fprintf calls, fclose, rename
pgraft_write_state_to_file(f, leader_id, term, node_id, nodes) ==
    [f EXCEPT !.state = [exists |-> TRUE, complete |-> TRUE,
                         data |-> [leader_id |-> leader_id, term |-> term,
                                   node_id |-> node_id, nodes |-> nodes]],
              !.state_tmp = [exists |-> FALSE, complete |-> FALSE,
                             data |-> NoStateData]]

(***************************************************************************)
(* Refresh of the shared cluster state from the engine (pgraft.c)          *)
(***************************************************************************)
\* go_lib_handle is per process: without the library in the calling process
\* nothing is read and nothing is written.
pgraft_update_shared_memory_from_go(c, w, f, engine, go_is_loaded) ==
    IF ~go_is_loaded THEN [cluster |-> c, worker |-> w, files |-> f]
    ELSE
    LET c1 == IF engine.nodes # <<>> THEN pgraft_core_update_nodes(c, engine.nodes)
              ELSE c
        w1 == IF engine.node_id > 0 THEN [w EXCEPT !.node_id = engine.node_id] ELSE w
        c2 == [c1 EXCEPT !.leader_id = engine.leader,
                         !.current_term = engine.term,
                         !.initialized = TRUE,
                         !.node_id = IF engine.node_id > 0 THEN engine.node_id ELSE @,
                         !.state = IF engine.leader > 0 /\ engine.leader = w1.node_id
                                   THEN "leader" ELSE "follower"]
    IN  [cluster |-> c2, worker |-> w1,
         files |-> pgraft_write_state_to_file(f, engine.leader, engine.term,
                                              engine.node_id, engine.nodes)]

(***************************************************************************)
(* Client side of the KV replication path (pgraft_kv.c, pgraft_kv_sql.c)   *)
(***************************************************************************)
\* A refusal ends in elog(ERROR): `error` is TRUE and nothing is returned.
pgraft_kv_queue_operation(c, w, f, engine, op_type, key, value, client_id, t, go_is_loaded) ==
    LET r == pgraft_update_shared_memory_from_go(c, w, f, engine, go_is_loaded)
        is_leader == (r.cluster.node_id = r.cluster.leader_id)
        refused == [cluster |-> r.cluster, worker |-> r.worker, files |-> r.files,
                    result |-> -1, error |-> TRUE]
    IN  IF ~is_leader THEN refused
        ELSE IF op_type \notin {PGRAFT_KV_PUT, PGRAFT_KV_DELETE} THEN refused
        ELSE LET q == pgraft_queue_kv_command(r.worker,
                          IF op_type = PGRAFT_KV_PUT THEN "COMMAND_KV_PUT"
                          ELSE "COMMAND_KV_DELETE", key, value, client_id, t)
             IN  IF ~q.ok THEN refused
                 ELSE [cluster |-> r.cluster, worker |-> q.worker, files |-> r.files,
                       result |-> 0, error |-> FALSE]

pgraft_kv_replicate_put(c, w, f, engine, key, value, client_id, t, go_is_loaded) ==
    pgraft_kv_queue_operation(c, w, f, engine, PGRAFT_KV_PUT, key, value,
                              client_id, t, go_is_loaded)

pgraft_kv_replicate_delete(c, w, f, engine, key, client_id, t, go_is_loaded) ==
    pgraft_kv_queue_operation(c, w, f, engine, PGRAFT_KV_DELETE, key, NULL,
                              client_id, t, go_is_loaded)

Ret(op, index, result, error) ==
    [op |-> op, index |-> index, result |-> result, error |-> error]

NoHist == [accepted |-> {}, dequeued |-> <<>>, calls |-> 0]

\* One more client statement, while the sessions have any left
ClientCall ==
    /\ hist.calls < MaxCalls
    /\ hist' = [hist EXCEPT !.calls = @ + 1]

\* SELECT pgraft_kv_put(key, value) in a client backend, which has not loaded
\* the engine's library
pgraft_kv_put_sql(key, value, client_id) ==
    /\ ClientCall
    /\ IF strlen(key) = 0 \/ strlen(key) >= KEY_SIZE \/ strlen(value) >= VALUE_SIZE
       THEN /\ ret' = Ret("kv_put", 0, -1, FALSE)
            /\ UNCHANGED <<cluster, worker, files>>
       ELSE LET r == pgraft_kv_replicate_put(cluster, worker, files, go, key, value,
                                             client_id, now, FALSE)
            IN  /\ cluster' = r.cluster
                /\ worker' = r.worker
                /\ files' = r.files
                /\ ret' = Ret("kv_put", 0, r.result, r.error)
    /\ UNCHANGED <<kv, go, sleep_count, now, log_state, proc>>

\* SELECT pgraft_kv_delete(key)
pgraft_kv_delete_sql(key, client_id) ==
    /\ ClientCall
    /\ IF strlen(key) = 0 \/ strlen(key) >= KEY_SIZE
       THEN /\ ret' = Ret("kv_delete", 0, -1, FALSE)
            /\ UNCHANGED <<cluster, worker, files>>
       ELSE LET r == pgraft_kv_replicate_delete(cluster, worker, files, go, key,
                                                client_id, now, FALSE)
            IN  /\ cluster' = r.cluster
                /\ worker' = r.worker
                /\ files' = r.files
                /\ ret' = Ret("kv_delete", 0, r.result, r.error)
    /\ UNCHANGED <<kv, go, sleep_count, now, log_state, proc>>

\* SELECT pgraft_kv_put_local(key, value): the SQL wrapper of put_local
pgraft_kv_put_local_func(key, value) ==
    LET out == pgraft_kv_put_local(kv, key, value)
    IN  /\ ClientCall
        /\ kv' = out.store
        /\ files' = IF out.save THEN pgraft_kv_save_to_disk(files, out.store) ELSE files
        /\ ret' = Ret("kv_put_local", 0, out.result, out.error)
        /\ UNCHANGED <<cluster, worker, go, sleep_count, now, log_state, proc>>

\* SELECT pgraft_kv_delete_local(key): the SQL wrapper of delete_local
pgraft_kv_delete_local_func(key) ==
    LET out == pgraft_kv_delete_local(kv, key)
    IN  /\ ClientCall
        /\ kv' = out.store
        /\ files' = IF out.save THEN pgraft_kv_save_to_disk(files, out.store) ELSE files
        /\ ret' = Ret("kv_delete_local", 0, out.result, out.error)
        /\ UNCHANGED <<cluster, worker, go, sleep_count, now, log_state, proc>>

(***************************************************************************)
(* Background worker (pgraft.c, pgraft_main)                               *)
(***************************************************************************)
\* Start-up: the library is loaded and the engine started in this process,
\* then the worker marks itself running.
pgraft_main_start ==
    /\ proc.main = "start"
    /\ go' = [go EXCEPT !.loaded = TRUE]
    /\ worker' = [worker EXCEPT !.node_id = 0, !.port = 0, !.status = "RUNNING"]
    /\ proc' = [proc EXCEPT !.main = "loop"]
    /\ UNCHANGED <<cluster, kv, files, sleep_count, now, log_state, ret, hist>>

\* The switch on cmd.type.  `accept` is the engine's answer to append_log.
pgraft_main_execute(w, engine, cmd, accept, t) ==
    IF cmd.type \in {"COMMAND_KV_PUT", "COMMAND_KV_DELETE"}
    THEN LET op_type == IF cmd.type = "COMMAND_KV_PUT" THEN PGRAFT_KV_PUT
                        ELSE PGRAFT_KV_DELETE
             json == pgraft_json_create_kv_operation(op_type, cmd.kv_key,
                         IF op_type = PGRAFT_KV_PUT THEN cmd.kv_value ELSE NULL,
                         cmd.kv_client_id, t)
             appended == accept /\ Len(engine.log) < MaxIndex
         IN  IF ~engine.loaded
             THEN [worker |-> pgraft_update_command_status(w, cmd.timestamp,
                                  "FAILED", "Go layer not loaded, cannot replicate KV operation"),
                   go |-> engine]
             ELSE IF appended
             THEN [worker |-> pgraft_update_command_status(w, cmd.timestamp,
                                  "COMPLETED", cmd.error_message),
                   go |-> [engine EXCEPT !.log = Append(@, json.json)]]
             ELSE [worker |-> pgraft_update_command_status(w, cmd.timestamp,
                                  "FAILED",
                                  IF op_type = PGRAFT_KV_PUT
                                  THEN "Failed to replicate KV PUT operation through Raft"
                                  ELSE "Failed to replicate KV DELETE operation through Raft"),
                   go |-> engine]
    ELSE IF cmd.type = "COMMAND_SHUTDOWN"
    THEN [worker |-> pgraft_update_command_status(
                         [w EXCEPT !.status = "STOPPED"], cmd.timestamp,
                         "COMPLETED", cmd.error_message),
          go |-> engine]
    ELSE [worker |-> pgraft_update_command_status(w, cmd.timestamp, "FAILED",
                         "Unknown command type"),
          go |-> engine]

\* One iteration of the loop: tick, refresh on every 5th pass, at most one
\* command dequeued and executed, then the sleep and the counter.
pgraft_main_loop(accept) ==
    /\ proc.main = "loop"
    /\ worker.status # "STOPPED"
    /\ LET r == IF sleep_count % REFRESH_EVERY = 0
                THEN pgraft_update_shared_memory_from_go(cluster, worker, files,
                                                         go, go.loaded)
                ELSE [cluster |-> cluster, worker |-> worker, files |-> files]
           d == pgraft_dequeue_command(r.worker)
           x == IF d.ok
                THEN pgraft_main_execute(pgraft_add_command_to_status(d.worker, d.cmd),
                                         go, d.cmd, accept, now)
                ELSE [worker |-> r.worker, go |-> go]
       IN  /\ cluster' = r.cluster
           /\ files' = r.files
           /\ worker' = x.worker
           /\ go' = x.go
    /\ sleep_count' = IF sleep_count + 1 >= ALIVE_CHECK THEN 0 ELSE sleep_count + 1
    /\ UNCHANGED <<kv, now, log_state, ret, proc, hist>>

(***************************************************************************)
(* The consensus engine (black box) and its commit callback               *)
(***************************************************************************)
InitGo == [loaded |-> FALSE, leader |-> 0, term |-> 0, node_id |-> ThisNode,
           nodes |-> <<ThisNode, OtherNode>>, log |-> <<>>, delivered |-> 0,
           redelivered |-> 0]

\* What another node's leader may have put into the log
RemotePayloads ==
    {pgraft_json_create_kv_operation(PGRAFT_KV_PUT, k, v, "pg_9", 0).json :
         k \in Keys \cup {KeyTooLong}, v \in Values}
    \cup {pgraft_json_create_kv_operation(PGRAFT_KV_DELETE, k, NULL, "pg_9", 0).json :
              k \in Keys}
    \cup {Payload("{", FALSE, {}, "", "", "", "", 0, 0, ""),
          Payload("1", FALSE, {}, "", "", "", "", 0, 3, ""),
          Payload("1", FALSE, {}, "", "", "", "", 0, 6, "INSERT")}

\* An election: the engine reports another leader (0: none) and a higher term
go_election(leader) ==
    /\ go.loaded
    /\ go.term < MaxTerm
    /\ leader # go.leader
    /\ go' = [go EXCEPT !.leader = leader, !.term = @ + 1]
    /\ UNCHANGED <<cluster, worker, kv, files, sleep_count, now, log_state, ret, proc, hist>>

\* An entry of the other node's leader reaches this node's log
go_replicate(data) ==
    /\ go.loaded
    /\ go.leader = OtherNode
    /\ Len(go.log) < MaxIndex
    /\ go' = [go EXCEPT !.log = Append(@, data)]
    /\ UNCHANGED <<cluster, worker, kv, files, sleep_count, now, log_state, ret, proc, hist>>

\* The callback the engine invokes for a committed entry
pgraft_go_apply_callback(raft_index, data, spi_connect_ok, spi_ret) ==
    LET out == pgraft_apply_entry_to_postgres(kv, worker, raft_index, data,
                                              spi_connect_ok, spi_ret)
    IN  /\ kv' = out.store
        /\ worker' = out.worker
        /\ files' = IF out.save THEN pgraft_kv_save_to_disk(files, out.store) ELSE files
        /\ ret' = Ret("apply", raft_index, out.result, out.error)

\* The engine delivers the next committed entry of its log
go_commit(spi_connect_ok, spi_ret) ==
    /\ go.loaded
    /\ go.delivered < Len(go.log)
    /\ pgraft_go_apply_callback(go.delivered + 1, go.log[go.delivered + 1],
                                spi_connect_ok, spi_ret)
    /\ go' = [go EXCEPT !.delivered = @ + 1]
    /\ UNCHANGED <<cluster, sleep_count, now, log_state, proc, hist>>

\* The engine delivers again an entry it has delivered before (replay)
go_replay(raft_index, spi_connect_ok, spi_ret) ==
    /\ go.loaded
    /\ raft_index <= go.delivered
    /\ go.redelivered < MaxRedeliver
    /\ pgraft_go_apply_callback(raft_index, go.log[raft_index],
                                spi_connect_ok, spi_ret)
    /\ go' = [go EXCEPT !.redelivered = @ + 1]
    /\ UNCHANGED <<cluster, sleep_count, now, log_state, proc, hist>>

tick_clock ==
    /\ now < MaxTime
    /\ now' = now + 1
    /\ UNCHANGED <<cluster, worker, kv, go, files, sleep_count, ret, proc, hist,
                   log_state>>

(***************************************************************************)
(* Log replication tracker (pgraft_log.c)                                  *)
(***************************************************************************)
LOG_MAX_ENTRIES == 3

LOG_DATA_SIZE == 1024

ZeroLogEntry ==
    [index |-> 0, term |-> 0, data |-> "", data_size |-> 0, committed |-> 0,
     applied |-> 0]

\* memset(g_log_state, 0, ...) and the default values
InitLogState ==
    [entries |-> [i \in 0..(LOG_MAX_ENTRIES - 1) |-> ZeroLogEntry],
     log_size |-> 0, last_index |-> 0, commit_index |-> 0, last_applied |-> 0,
     entries_replicated |-> 0, entries_committed |-> 0, entries_applied |-> 0,
     replication_errors |-> 0]

\* The result of a tracker call: the state afterwards, the returned value and
\* whether elog(ERROR) left the function instead of a return
LogOutcome(state, result, error) ==
    [state |-> state, result |-> result, error |-> error]

\* An append that does not test log_size: the statement on the limits of the
\* log must tell it from pgraft_log_append_entry
append_without_capacity_test(state, term, data, data_size) ==
    IF data_size > LOG_DATA_SIZE THEN LogOutcome(state, -1, TRUE)
    ELSE LogOutcome([state EXCEPT
             !.entries = [i \in 0..(LOG_MAX_ENTRIES - 1) |->
                 IF i = state.log_size
                 THEN [index |-> state.last_index + 1, term |-> term,
                       data |-> IF data # NULL /\ data_size > 0 THEN data ELSE "",
                       data_size |-> data_size, committed |-> 0, applied |-> 0]
                 ELSE state.entries[i]],
             !.log_size = @ + 1,
             !.last_index = state.last_index + 1], 0, FALSE)

\* An append that numbers the entry by its position in the array: the
\* statement on gapless indices must tell it from pgraft_log_append_entry
append_index_from_size(state, term, data, data_size) ==
    IF data_size > LOG_DATA_SIZE THEN LogOutcome(state, -1, TRUE)
    ELSE IF state.log_size >= LOG_MAX_ENTRIES THEN LogOutcome(state, -1, TRUE)
    ELSE LogOutcome([state EXCEPT
             !.entries[state.log_size] =
                 [index |-> state.log_size + 1, term |-> term,
                  data |-> IF data # NULL /\ data_size > 0 THEN data ELSE "",
                  data_size |-> data_size, committed |-> 0, applied |-> 0],
             !.log_size = @ + 1,
             !.last_index = state.log_size + 1], 0, FALSE)

pgraft_log_append_entry(state, term, data, data_size) ==
    IF data_size > LOG_DATA_SIZE THEN LogOutcome(state, -1, TRUE)
    ELSE IF state.log_size >= LOG_MAX_ENTRIES THEN LogOutcome(state, -1, TRUE)
    ELSE LogOutcome([state EXCEPT
             !.entries[state.log_size] =
                 [index |-> state.last_index + 1, term |-> term,
                  data |-> IF data # NULL /\ data_size > 0 THEN data ELSE "",
                  data_size |-> data_size, committed |-> 0, applied |-> 0],
             !.log_size = @ + 1,
             !.last_index = state.last_index + 1], 0, FALSE)

\* A search that takes the first entry whatever its index: the statement on
\* calls for unknown indices must tell it from log_find_entry
log_find_first(state, index) == IF state.log_size > 0 THEN 0 ELSE -1

\* The loop "for (i = 0; i < state->log_size; i++) if (entries[i].index ==
\* index)": the first position that holds the index, or -1
log_find_entry(state, index) ==
    LET hits == {i \in 0..(state.log_size - 1) : state.entries[i].index = index}
    IN  IF hits = {} THEN -1
        ELSE CHOOSE i \in hits : \A j \in hits : i <= j

\* A commit that sets commit_index to the index it was called with: the
\* statement on counters that never decrease must tell it from
\* pgraft_log_commit_entry
commit_sets_index(state, index) ==
    LET i == log_find_entry(state, index)
    IN  IF i < 0 THEN LogOutcome(state, -1, FALSE)
        ELSE LogOutcome([state EXCEPT
                 !.entries[i].committed = 1,
                 !.commit_index = index,
                 !.entries_committed = @ + 1], 0, FALSE)

pgraft_log_commit_entry(state, index) ==
    LET i == log_find_entry(state, index)
    IN  IF i < 0 THEN LogOutcome(state, -1, FALSE)
        ELSE LogOutcome([state EXCEPT
                 !.entries[i].committed = 1,
                 !.commit_index = IF index > @ THEN index ELSE @,
                 !.entries_committed = @ + 1], 0, FALSE)

\* An apply that does not look at the committed flag: the statement on the
\* order of the flags must tell it from pgraft_log_apply_entry
apply_without_commit_check(state, index) ==
    LET i == log_find_entry(state, index)
    IN  IF i < 0 THEN LogOutcome(state, -1, FALSE)
        ELSE LogOutcome([state EXCEPT
                 !.entries[i].applied = 1,
                 !.last_applied = IF index > @ THEN index ELSE @,
                 !.entries_applied = @ + 1], 0, FALSE)

pgraft_log_apply_entry(state, index) ==
    LET i == log_find_entry(state, index)
    IN  IF i < 0 THEN LogOutcome(state, -1, FALSE)
        ELSE IF state.entries[i].committed = 0 THEN LogOutcome(state, -1, FALSE)
        ELSE LogOutcome([state EXCEPT
                 !.entries[i].applied = 1,
                 !.last_applied = IF index > @ THEN index ELSE @,
                 !.entries_applied = @ + 1], 0, FALSE)

\* A cleanup that also removes the entry with the index it was called with:
\* the statement on what a cleanup keeps must tell it from
\* pgraft_log_cleanup_old_entries
cleanup_up_to(state, before_index) ==
    LET kept == SelectSeq([i \in 1..state.log_size |-> state.entries[i - 1]],
                          LAMBDA e : e.index > before_index)
    IN  [state EXCEPT
            !.entries = [j \in 0..(LOG_MAX_ENTRIES - 1) |->
                            IF j < Len(kept) THEN kept[j + 1]
                            ELSE state.entries[j]],
            !.log_size = Len(kept)]

\* The loops of pgraft_log_cleanup_old_entries from position i on
RECURSIVE CleanupFrom(_, _, _)
CleanupFrom(state, before_index, i) ==
    IF i >= state.log_size THEN state
    ELSE IF state.entries[i].index < before_index
    THEN CleanupFrom(
             [state EXCEPT
                 !.entries = [j \in 0..(LOG_MAX_ENTRIES - 1) |->
                                 IF j >= i /\ j < state.log_size - 1
                                 THEN state.entries[j + 1]
                                 ELSE state.entries[j]],
                 !.log_size = @ - 1],
             before_index, i)
    ELSE CleanupFrom(state, before_index, i + 1)

pgraft_log_cleanup_old_entries(state, before_index) ==
    CleanupFrom(state, before_index, 0)

\* A reset that leaves last_applied alone: the statement on the order of the
\* three counters must tell it from pgraft_log_reset
reset_keeps_last_applied(state) ==
    [state EXCEPT !.log_size = 0, !.last_index = 0, !.commit_index = 0,
                  !.entries_replicated = 0, !.entries_committed = 0,
                  !.entries_applied = 0, !.replication_errors = 0]

pgraft_log_reset(state) ==
    [state EXCEPT !.log_size = 0, !.last_index = 0, !.commit_index = 0,
                  !.last_applied = 0, !.entries_replicated = 0,
                  !.entries_committed = 0, !.entries_applied = 0,
                  !.replication_errors = 0]

(***************************************************************************)
(* Specification of the node: clients, worker, engine                      *)
(***************************************************************************)
Init ==
    /\ cluster = InitCluster
    /\ worker = InitWorker
    /\ kv = EmptyStore
    /\ go = InitGo
    /\ files = InitFiles
    /\ sleep_count = 0
    /\ now = 0
    /\ log_state = InitLogState
    /\ ret = Ret("none", 0, 0, FALSE)
    /\ proc = [main |-> "start"]
    /\ hist = NoHist

Next ==
    \/ pgraft_main_start
    \/ \E accept \in BOOLEAN : pgraft_main_loop(accept)
    \/ \E k \in Keys, v \in Values, c \in ClientIds : pgraft_kv_put_sql(k, v, c)
    \/ \E k \in Keys, c \in ClientIds : pgraft_kv_delete_sql(k, c)
    \/ \E k \in Keys, v \in Values : pgraft_kv_put_local_func(k, v)
    \/ \E k \in Keys : pgraft_kv_delete_local_func(k)
    \/ \E l \in {0, ThisNode, OtherNode} : go_election(l)
    \/ \E ok \in BOOLEAN, r \in {-1, 0} : go_commit(ok, r)

Spec == Init /\ [][Next]_vars

(***************************************************************************)
(* Specification of the apply pipeline on a running follower               *)
(***************************************************************************)
ApplyInit ==
    /\ cluster = InitCluster
    /\ worker = [InitWorker EXCEPT !.status = "RUNNING"]
    /\ kv = EmptyStore
    /\ go = [InitGo EXCEPT !.loaded = TRUE, !.leader = OtherNode, !.term = 1]
    /\ files = InitFiles
    /\ sleep_count = 0
    /\ now = 0
    /\ log_state = InitLogState
    /\ ret = Ret("none", 0, 0, FALSE)
    /\ proc = [main |-> "loop"]
    /\ hist = NoHist

ApplyNext ==
    \/ \E p \in RemotePayloads : go_replicate(p)
    \/ \E ok \in BOOLEAN, r \in {-1, 0} : go_commit(ok, r)
    \/ \E i \in 1..MaxIndex, ok \in BOOLEAN, r \in {-1, 0} : go_replay(i, ok, r)

ApplySpec == ApplyInit /\ [][ApplyNext]_vars

(***************************************************************************)
(* Properties of the apply pipeline                                        *)
(***************************************************************************)
\* A step in which the engine hands a committed entry to the apply callback
Delivery ==
    go'.delivered # go.delivered \/ go'.redelivered # go.redelivered

\* The outcome of a call: it failed when it raised an error or returned non-zero
Failed(r) == r.error \/ r.result # 0

\* C1: across any sequence of commit deliveries the worker's last_applied_index
\* never decreases, and a delivery whose index is lower than one already
\* applied leaves the local state as it was.
C1_AppliedIndexNeverDecreases ==
    [][/\ worker'.last_applied_index >= worker.last_applied_index
       /\ (Delivery /\ ret'.index < worker.last_applied_index) => kv' = kv]_vars

\* C2: a delivery of an index N that is already applied (last_applied_index >= N)
\* returns success and changes nothing: no version is incremented a second
\* time, no counter moves, the applied index stays.
C2_DuplicateDeliveryIsNoOp ==
    [][(Delivery /\ ret'.index <= worker.last_applied_index)
       => /\ ~Failed(ret')
          /\ kv' = kv
          /\ worker'.last_applied_index = worker.last_applied_index]_vars

\* C3: a client's kv-put or kv-delete and the worker's execution of the queued
\* command never change the KV store; the store changes only in a step in which
\* the apply pipeline applies a committed entry.
C3_StoreChangesOnlyOnApply ==
    [][kv' # kv => Delivery]_vars

\* The descriptor names this node as the leader of an initialised cluster
KnownLeader == cluster.initialized /\ cluster.leader_id = cluster.node_id

\* A step of SELECT pgraft_kv_put(..) or SELECT pgraft_kv_delete(..)
ClientWrite ==
    hist'.calls # hist.calls /\ ret'.op \in {"kv_put", "kv_delete"}

\* C4: on a node that is not the leader, which includes a node whose cluster is
\* not initialised or knows no leader, a kv-put or kv-delete is refused and no
\* command is enqueued.
C4_NonLeaderWriteRefused ==
    [][(ClientWrite /\ ~KnownLeader) => (Failed(ret') /\ worker' = worker)]_vars

\* C5: on the leader, when a put of a new key k with value v is delivered as
\* committed index N, then get(k) returns v with version 1, the store's
\* last_applied_index is N and the entry's log_index is N.
C5_PutVisibleAtCommitIndex ==
    [][(/\ go'.delivered = go.delivered + 1
        /\ go.leader = go.node_id
        /\ go.log[go'.delivered].type = "kv_put"
        /\ pgraft_kv_find_entry_index(kv, go.log[go'.delivered].key) < 0)
       => LET N == go'.delivered
              d == go.log[N]
              i == pgraft_kv_find_entry_index(kv', d.key)
          IN  /\ pgraft_kv_get(kv', d.key).result = 0
              /\ pgraft_kv_get(kv', d.key).value = d.value
              /\ pgraft_kv_get(kv', d.key).version = 1
              /\ kv'.last_applied_index = N
              /\ kv'.entries[i].log_index = N]_vars

\* C6: whenever applying an entry fails, the apply function returns a negative
\* result to its caller and the last applied index is unchanged.
C6_FailureReturnsNegative ==
    [][(Delivery /\ Failed(ret'))
       => /\ ~ret'.error
          /\ ret'.result < 0
          /\ worker'.last_applied_index = worker.last_applied_index]_vars

\* C7: once applying index N has failed the pipeline halts: no later delivery
\* of an index above N is applied.
C7_HaltsAfterFailure ==
    [][(Delivery /\ ret.op = "apply" /\ Failed(ret) /\ ret'.index > ret.index)
       => (Failed(ret') /\ kv' = kv
           /\ worker'.last_applied_index = worker.last_applied_index)]_vars

(***************************************************************************)
(* Specification of the commit bridge: the engine hands committed entries  *)
(* to the Apply Queue while the worker loop runs                           *)
(***************************************************************************)
\* pgraft_enqueue_for_apply_from_go: 0 when the entry was queued, -1 otherwise.
\* The engine offers the next committed entry and offers it again if refused.
pgraft_enqueue_for_apply_from_go(data_len) ==
    /\ go.loaded
    /\ go.delivered < Len(go.log)
    /\ LET raft_index == go.delivered + 1
           q == pgraft_enqueue_apply_entry(worker, raft_index, go.log[raft_index],
                                           data_len)
       IN  /\ worker' = q.worker
           /\ ret' = Ret("enqueue", raft_index, IF q.ok THEN 0 ELSE -1, FALSE)
           /\ go' = IF q.ok THEN [go EXCEPT !.delivered = raft_index] ELSE go
    /\ UNCHANGED <<cluster, kv, files, sleep_count, now, log_state, proc, hist>>

BridgeNext ==
    \/ \E p \in RemotePayloads : go_replicate(p)
    \/ \E n \in {APPLY_DATA_SIZE, APPLY_DATA_SIZE + 1} : pgraft_enqueue_for_apply_from_go(n)
    \/ \E accept \in BOOLEAN : pgraft_main_loop(accept)

\* The worker is a background process of its own: its loop keeps being scheduled
BridgeSpec ==
    /\ ApplyInit
    /\ [][BridgeNext]_vars
    /\ WF_vars(\E accept \in BOOLEAN : pgraft_main_loop(accept))

\* Index n waits between head and tail of the Apply Queue
InApplyQueue(n) ==
    \E k \in 0..(worker.apply_count - 1) :
        worker.apply_queue[(worker.apply_head + k) % MAX_APPLY_ENTRIES].raft_index = n

\* C8: every committed entry accepted onto the Apply Queue is eventually
\* dequeued from the head and applied, given that the worker loop keeps running
\* and is scheduled fairly.
C8_AcceptedEventuallyApplied ==
    \A n \in 1..MaxIndex :
        InApplyQueue(n) ~> (~InApplyQueue(n) /\ worker.last_applied_index >= n)

(***************************************************************************)
(* Specification of the Command Queue under concurrent callers: each       *)
(* access of pgraft_queue_kv_command and pgraft_dequeue_command to the     *)
(* shared structure is a step of its own, as the functions take no lock.   *)
(***************************************************************************)
Submitters == {"pg_1", "pg_2"}

\* What identifies a queued command: who sent it and which of its sends it is
CommandId(cmd) == <<cmd.kv_client_id, cmd.kv_value>>

RaceInit ==
    /\ cluster = InitCluster
    /\ worker = [InitWorker EXCEPT !.status = "RUNNING"]
    /\ kv = EmptyStore
    /\ go = [InitGo EXCEPT !.loaded = TRUE]
    /\ files = InitFiles
    /\ sleep_count = 0
    /\ now = 0
    /\ log_state = InitLogState
    /\ ret = Ret("none", 0, 0, FALSE)
    /\ proc = [main |-> "loop",
               sub |-> [p \in Submitters |-> [pc |-> "idle", sent |-> 0]],
               deq |-> [pc |-> "idle", cmd |-> ZeroCommand]]
    /\ hist = NoHist

RaceFrame == UNCHANGED <<cluster, kv, go, files, sleep_count, now, log_state, ret>>

\* if (state->command_count >= MAX_COMMANDS) return false;
queue_kv_command_check(p) ==
    /\ proc.sub[p].pc = "idle"
    /\ proc.sub[p].sent < MaxSubmit
    /\ proc' = [proc EXCEPT !.sub[p].sent = @ + 1,
                            !.sub[p].pc = IF worker.command_count >= MAX_COMMANDS
                                          THEN "idle" ELSE "fill"]
    /\ UNCHANGED <<worker, hist>>
    /\ RaceFrame

\* cmd = &state->commands[state->command_tail]; and the stores through cmd
queue_kv_command_fill(p) ==
    /\ proc.sub[p].pc = "fill"
    /\ worker' = [worker EXCEPT !.commands[worker.command_tail] =
                      [@ EXCEPT !.type = "COMMAND_KV_PUT", !.node_id = 0,
                                !.address = "", !.port = 0, !.cluster_id = "",
                                !.kv_key = "alpha",
                                !.kv_value = ToString(proc.sub[p].sent),
                                !.kv_client_id = p, !.status = "PENDING",
                                !.error_message = "", !.timestamp = now]]
    /\ proc' = [proc EXCEPT !.sub[p].pc = "tail"]
    /\ UNCHANGED hist
    /\ RaceFrame

\* state->command_tail = (state->command_tail + 1) % MAX_COMMANDS;
queue_kv_command_tail(p) ==
    /\ proc.sub[p].pc = "tail"
    /\ worker' = [worker EXCEPT !.command_tail = (@ + 1) % MAX_COMMANDS]
    /\ proc' = [proc EXCEPT !.sub[p].pc = "count"]
    /\ UNCHANGED hist
    /\ RaceFrame

\* state->command_count++; return true;
queue_kv_command_count(p) ==
    /\ proc.sub[p].pc = "count"
    /\ worker' = [worker EXCEPT !.command_count = @ + 1]
    /\ proc' = [proc EXCEPT !.sub[p].pc = "idle"]
    /\ hist' = [hist EXCEPT !.accepted = @ \cup {<<p, ToString(proc.sub[p].sent)>>}]
    /\ RaceFrame

\* if (state->command_count == 0) return false; *cmd = state->commands[head];
dequeue_command_copy ==
    /\ proc.deq.pc = "idle"
    /\ worker.command_count # 0
    /\ proc' = [proc EXCEPT !.deq.pc = "head",
                            !.deq.cmd = worker.commands[worker.command_head]]
    /\ UNCHANGED <<worker, hist>>
    /\ RaceFrame

\* state->command_head = (state->command_head + 1) % MAX_COMMANDS;
dequeue_command_head ==
    /\ proc.deq.pc = "head"
    /\ worker' = [worker EXCEPT !.command_head = (@ + 1) % MAX_COMMANDS]
    /\ proc' = [proc EXCEPT !.deq.pc = "count"]
    /\ UNCHANGED hist
    /\ RaceFrame

\* state->command_count--; return true;
dequeue_command_count ==
    /\ proc.deq.pc = "count"
    /\ worker' = [worker EXCEPT !.command_count = @ - 1]
    /\ proc' = [proc EXCEPT !.deq.pc = "idle"]
    /\ hist' = [hist EXCEPT !.dequeued = Append(@, CommandId(proc.deq.cmd))]
    /\ RaceFrame

RaceNext ==
    \/ \E p \in Submitters : queue_kv_command_check(p)
    \/ \E p \in Submitters : queue_kv_command_fill(p)
    \/ \E p \in Submitters : queue_kv_command_tail(p)
    \/ \E p \in Submitters : queue_kv_command_count(p)
    \/ dequeue_command_copy
    \/ dequeue_command_head
    \/ dequeue_command_count
    \/ tick_clock

RaceSpec == RaceInit /\ [][RaceNext]_vars

\* No caller is inside a queue function
Quiescent ==
    /\ \A p \in Submitters : proc.sub[p].pc = "idle"
    /\ proc.deq.pc = "idle"

\* The commands between head and tail of the Command Queue
Waiting ==
    {CommandId(worker.commands[(worker.command_head + k) % MAX_COMMANDS]) :
         k \in 0..(worker.command_count - 1)}

\* C9: with concurrent submitters and the worker, no accepted command is lost
\* or overwritten, each is dequeued exactly once, and command_count equals the
\* accepted submissions minus the dequeues.
C9_NoCommandLost ==
    Quiescent =>
        /\ \A id \in hist.accepted :
               \/ id \in Waiting
               \/ \E i \in 1..Len(hist.dequeued) : hist.dequeued[i] = id
        /\ \A i, j \in 1..Len(hist.dequeued) :
               hist.dequeued[i] = hist.dequeued[j] => i = j
        /\ worker.command_count = Cardinality(hist.accepted) - Len(hist.dequeued)

(***************************************************************************)
(* Specification of the durable files across a crash: every call on a file *)
(* is a step, and the server may die between any two of them.              *)
(***************************************************************************)
\* A load that leaves out one of the counters: the statement on the snapshot
\* round trip must tell it from pgraft_kv_load_from_disk
load_without_gets(store, f) ==
    IF ~f.kv.exists THEN [result |-> -1, store |-> store]
    ELSE IF ~f.kv.complete THEN [result |-> -1, store |-> store]
    ELSE LET temp_store == f.kv.data
         IN  [result |-> 0,
              store |-> [store EXCEPT
                  !.entries = temp_store.entries,
                  !.num_entries = temp_store.num_entries,
                  !.total_operations = temp_store.total_operations,
                  !.last_applied_index = temp_store.last_applied_index,
                  !.puts = temp_store.puts,
                  !.deletes = temp_store.deletes]]

\* fopen(path, "rb"); fread of one whole structure; the copy into the store
pgraft_kv_load_from_disk(store, f) ==
    IF ~f.kv.exists THEN [result |-> -1, store |-> store]
    ELSE IF ~f.kv.complete THEN [result |-> -1, store |-> store]
    ELSE LET temp_store == f.kv.data
         IN  [result |-> 0,
              store |-> [store EXCEPT
                  !.entries = temp_store.entries,
                  !.num_entries = temp_store.num_entries,
                  !.total_operations = temp_store.total_operations,
                  !.last_applied_index = temp_store.last_applied_index,
                  !.puts = temp_store.puts,
                  !.deletes = temp_store.deletes,
                  !.gets = temp_store.gets]]

\* pgraft_kv_init_shared_memory on a new segment
pgraft_kv_init_shared_memory(f) == pgraft_kv_load_from_disk(EmptyStore, f).store

CrashInit ==
    /\ cluster = InitCluster
    /\ worker = [InitWorker EXCEPT !.status = "RUNNING"]
    /\ kv = pgraft_kv_init_shared_memory(InitFiles)
    /\ go = [InitGo EXCEPT !.loaded = TRUE]
    /\ files = InitFiles
    /\ sleep_count = 0
    /\ now = 0
    /\ log_state = InitLogState
    /\ ret = Ret("none", 0, 0, FALSE)
    /\ proc = [main |-> "up", save |-> "idle", state |-> "idle"]
    /\ hist = NoHist

CrashFrame == UNCHANGED <<cluster, worker, sleep_count, now, log_state>>

\* pgraft_kv_put up to its call of pgraft_kv_save_to_disk
kv_put_in_memory(key, value) ==
    /\ proc.main = "up" /\ proc.save = "idle"
    /\ ClientCall
    /\ LET out == pgraft_kv_put(kv, key, value, 0)
       IN  /\ kv' = out.store
           /\ ret' = Ret("kv_put_local", 0, out.result, out.error)
           /\ proc' = [proc EXCEPT !.save = IF out.save THEN "fopen" ELSE "idle"]
    /\ UNCHANGED <<go, files>>
    /\ CrashFrame

\* file = fopen(path, "wb"): the file is there and has length zero
kv_save_fopen ==
    /\ proc.main = "up" /\ proc.save = "fopen"
    /\ files' = [files EXCEPT !.kv = [exists |-> TRUE, complete |-> FALSE,
                                      data |-> EmptyStore]]
    /\ proc' = [proc EXCEPT !.save = "fwrite"]
    /\ UNCHANGED <<kv, go, ret, hist>>
    /\ CrashFrame

\* fwrite(store, sizeof(pgraft_kv_store_t), 1, file); fclose(file);
kv_save_fwrite ==
    /\ proc.main = "up" /\ proc.save = "fwrite"
    /\ files' = pgraft_kv_save_to_disk(files, kv)
    /\ proc' = [proc EXCEPT !.save = "idle"]
    /\ UNCHANGED <<kv, go, ret, hist>>
    /\ CrashFrame

\* The worker finds a new leader and term to record
state_changed(leader) ==
    /\ proc.main = "up" /\ proc.state = "idle"
    /\ go.term < MaxTerm
    /\ go' = [go EXCEPT !.leader = leader, !.term = @ + 1]
    /\ proc' = [proc EXCEPT !.state = "fopen"]
    /\ UNCHANGED <<kv, files, ret, hist>>
    /\ CrashFrame

\* fp = fopen(temppath, "w");
state_fopen_tmp ==
    /\ proc.main = "up" /\ proc.state = "fopen"
    /\ files' = [files EXCEPT !.state_tmp = [exists |-> TRUE, complete |-> FALSE,
                                             data |-> NoStateData]]
    /\ proc' = [proc EXCEPT !.state = "fprintf"]
    /\ UNCHANGED <<kv, go, ret, hist>>
    /\ CrashFrame

\* the fprintf calls and fclose(fp)
state_fprintf_tmp ==
    /\ proc.main = "up" /\ proc.state = "fprintf"
    /\ files' = [files EXCEPT !.state_tmp =
                     [exists |-> TRUE, complete |-> TRUE,
                      data |-> [leader_id |-> go.leader, term |-> go.term,
                                node_id |-> go.node_id, nodes |-> go.nodes]]]
    /\ proc' = [proc EXCEPT !.state = "rename"]
    /\ UNCHANGED <<kv, go, ret, hist>>
    /\ CrashFrame

\* rename(temppath, filepath)
state_rename ==
    /\ proc.main = "up" /\ proc.state = "rename"
    /\ files' = [files EXCEPT !.state = files.state_tmp,
                              !.state_tmp = [exists |-> FALSE, complete |-> FALSE,
                                             data |-> NoStateData]]
    /\ proc' = [proc EXCEPT !.state = "idle"]
    /\ UNCHANGED <<kv, go, ret, hist>>
    /\ CrashFrame

\* The server dies: every process is gone, the files stay as they are
crash ==
    /\ proc.main = "up"
    /\ ClientCall
    /\ proc' = [main |-> "crashed", save |-> "idle", state |-> "idle"]
    /\ UNCHANGED <<kv, go, files, ret>>
    /\ CrashFrame

\* The server starts again on a new shared memory segment
restart ==
    /\ proc.main = "crashed"
    /\ cluster' = InitCluster
    /\ worker' = [InitWorker EXCEPT !.status = "RUNNING"]
    /\ kv' = pgraft_kv_init_shared_memory(files)
    /\ sleep_count' = 0
    /\ proc' = [proc EXCEPT !.main = "up"]
    /\ UNCHANGED <<go, files, now, log_state, ret, hist>>

CrashNext ==
    \/ \E k \in Keys, v \in Values : kv_put_in_memory(k, v)
    \/ kv_save_fopen
    \/ kv_save_fwrite
    \/ \E l \in {0, ThisNode, OtherNode} : state_changed(l)
    \/ state_fopen_tmp
    \/ state_fprintf_tmp
    \/ state_rename
    \/ crash
    \/ restart

CrashSpec == CrashInit /\ [][CrashNext]_vars

\* C10: both durable files are replaced atomically: wherever the server dies,
\* the cluster state file and the KV snapshot are each a complete old or a
\* complete new file.
C10_DurableFilesComplete ==
    proc.main = "crashed" =>
        /\ files.state.exists => files.state.complete
        /\ files.kv.exists => files.kv.complete

(***************************************************************************)
(* Specification of recovery: committed KV entries are applied, the server *)
(* dies between two deliveries and starts again from the snapshot          *)
(***************************************************************************)
\* The well-formed KV operations among the payloads
KvPayloads == {p \in RemotePayloads : p.first = "{" /\ p.parses}

RecoveryInit ==
    /\ cluster = InitCluster
    /\ worker = [InitWorker EXCEPT !.status = "RUNNING"]
    /\ kv = pgraft_kv_init_shared_memory(InitFiles)
    /\ go = [InitGo EXCEPT !.loaded = TRUE, !.leader = OtherNode, !.term = 1]
    /\ files = InitFiles
    /\ sleep_count = 0
    /\ now = 0
    /\ log_state = InitLogState
    /\ ret = Ret("none", 0, 0, FALSE)
    /\ proc = [main |-> "up", save |-> "idle", state |-> "idle"]
    /\ hist = NoHist

\* The engine runs inside the worker process: it acts only while the server is up
go_replicate_up(data) == proc.main = "up" /\ go_replicate(data)

go_commit_up(spi_connect_ok, spi_ret) ==
    proc.main = "up" /\ go_commit(spi_connect_ok, spi_ret)

RecoveryNext ==
    \/ \E p \in KvPayloads : go_replicate_up(p)
    \/ \E ok \in BOOLEAN, r \in {-1, 0} : go_commit_up(ok, r)
    \/ crash
    \/ restart

RecoverySpec == RecoveryInit /\ [][RecoveryNext]_vars

\* C11: when KV entries up to raft index N have been applied and the server
\* restarts on fresh shared memory, the last_applied_index loaded from the
\* snapshot equals N.
C11_RecoveredIndexIsApplied ==
    [][(proc.main = "crashed" /\ proc'.main = "up")
       => kv'.last_applied_index = worker.last_applied_index]_vars

(***************************************************************************)
(* The store on its own: sessions calling the functions of pgraft_kv.c     *)
(***************************************************************************)
MaxStoreCalls == 6

StoreKeys == {"alpha", "beta"}

pgraft_kv_exists(store, key) ==
    IF key = NULL THEN FALSE ELSE pgraft_kv_find_entry_index(store, key) >= 0

\* The loop of pgraft_json_create_key_list from entry i on: the keys of the
\* entries that are not deleted, in the order of the array
RECURSIVE KeyListFrom(_, _)
KeyListFrom(store, i) ==
    IF i >= store.num_entries THEN <<>>
    ELSE IF ~store.entries[i].deleted
    THEN <<store.entries[i].key>> \o KeyListFrom(store, i + 1)
    ELSE KeyListFrom(store, i + 1)

pgraft_json_create_key_list(store) == KeyListFrom(store, 0)

pgraft_kv_list_keys(store) == pgraft_json_create_key_list(store)

\* The first loop of pgraft_kv_compact from entry i on, j entries kept so far
RECURSIVE CompactFrom(_, _, _, _)
CompactFrom(entries, num_entries, i, j) ==
    IF i >= num_entries THEN [entries |-> entries, j |-> j]
    ELSE IF ~entries[i].deleted
    THEN CompactFrom(IF i # j THEN [entries EXCEPT ![j] = entries[i]] ELSE entries,
                     num_entries, i + 1, j + 1)
    ELSE CompactFrom(entries, num_entries, i + 1, j)

\* A compaction that counts the live entries but moves nothing: the statement
\* on what compact keeps must tell it from pgraft_kv_compact
compact_without_move(store) ==
    [store EXCEPT !.num_entries =
                      CompactFrom(store.entries, store.num_entries, 0, 0).j]

pgraft_kv_compact(store) ==
    LET moved == CompactFrom(store.entries, store.num_entries, 0, 0)
    IN  [store EXCEPT
            !.entries = [i \in 0..(KV_MAX_ENTRIES - 1) |->
                            IF i >= moved.j /\ i < store.num_entries
                            THEN ZeroEntry ELSE moved.entries[i]],
            !.num_entries = moved.j]

pgraft_kv_reset(store) ==
    [store EXCEPT !.entries = [i \in 0..(KV_MAX_ENTRIES - 1) |-> ZeroEntry],
                  !.num_entries = 0, !.total_operations = 0,
                  !.last_applied_index = 0, !.puts = 0, !.deletes = 0,
                  !.gets = 0]

\* unlink(PGRAFT_KV_PERSIST_FILE)
unlink_kv_file(f) ==
    [f EXCEPT !.kv = [exists |-> FALSE, complete |-> FALSE, data |-> EmptyStore]]

\* What a call on the store handed back to its caller
StoreRet(op, key, result, error, value, version, keys) ==
    [op |-> op, key |-> key, result |-> result, error |-> error,
     value |-> value, version |-> version, keys |-> keys]

StoreInit ==
    /\ cluster = InitCluster
    /\ worker = [InitWorker EXCEPT !.status = "RUNNING"]
    /\ kv = pgraft_kv_init_shared_memory(InitFiles)
    /\ go = [InitGo EXCEPT !.loaded = TRUE]
    /\ files = InitFiles
    /\ sleep_count = 0
    /\ now = 0
    /\ log_state = InitLogState
    /\ ret = StoreRet("none", NULL, 0, FALSE, NULL, 0, <<>>)
    /\ proc = [main |-> "up"]
    /\ hist = NoHist

StoreFrame == UNCHANGED <<cluster, worker, go, sleep_count, now, log_state, proc>>

StoreCall ==
    /\ hist.calls < MaxStoreCalls
    /\ hist' = [hist EXCEPT !.calls = @ + 1]

\* A call of pgraft_kv_put; the log index is the number of the call
store_put(key, value) ==
    LET out == pgraft_kv_put(kv, key, value, hist.calls + 1)
    IN  /\ StoreCall
        /\ kv' = out.store
        /\ files' = IF out.save THEN pgraft_kv_save_to_disk(files, out.store)
                    ELSE files
        /\ ret' = StoreRet("put", key, out.result, out.error, value, 0, <<>>)
        /\ StoreFrame

store_delete(key) ==
    LET out == pgraft_kv_delete(kv, key, hist.calls + 1)
    IN  /\ StoreCall
        /\ kv' = out.store
        /\ files' = IF out.save THEN pgraft_kv_save_to_disk(files, out.store)
                    ELSE files
        /\ ret' = StoreRet("delete", key, out.result, out.error, NULL, 0, <<>>)
        /\ StoreFrame

store_get(key) ==
    LET out == pgraft_kv_get(kv, key)
    IN  /\ StoreCall
        /\ kv' = out.store
        /\ ret' = StoreRet("get", key, out.result, FALSE, out.value,
                           out.version, <<>>)
        /\ UNCHANGED files
        /\ StoreFrame

store_exists(key) ==
    /\ StoreCall
    /\ ret' = StoreRet("exists", key,
                       IF pgraft_kv_exists(kv, key) THEN 1 ELSE 0, FALSE, NULL,
                       0, <<>>)
    /\ UNCHANGED <<kv, files>>
    /\ StoreFrame

store_list_keys ==
    /\ StoreCall
    /\ ret' = StoreRet("list_keys", NULL, 0, FALSE, NULL, 0,
                       pgraft_kv_list_keys(kv))
    /\ UNCHANGED <<kv, files>>
    /\ StoreFrame

store_compact ==
    /\ StoreCall
    /\ kv' = pgraft_kv_compact(kv)
    /\ files' = pgraft_kv_save_to_disk(files, kv')
    /\ ret' = StoreRet("compact", NULL, 0, FALSE, NULL, 0, <<>>)
    /\ StoreFrame

store_reset ==
    /\ StoreCall
    /\ kv' = pgraft_kv_reset(kv)
    /\ files' = unlink_kv_file(files)
    /\ ret' = StoreRet("reset", NULL, 0, FALSE, NULL, 0, <<>>)
    /\ StoreFrame

StoreNext ==
    \/ \E k \in StoreKeys, v \in Values : store_put(k, v)
    \/ store_put(KeyTooLong, "1")
    \/ store_put("alpha", ValueTooLong)
    \/ \E k \in StoreKeys : store_delete(k)
    \/ \E k \in StoreKeys : store_get(k)
    \/ \E k \in StoreKeys : store_exists(k)
    \/ store_list_keys
    \/ store_compact
    \/ store_reset

StoreSpec == StoreInit /\ [][StoreNext]_vars

(***************************************************************************)
(* Versions of a key                                                       *)
(***************************************************************************)
\* The entries of key k among entries[0..num_entries), live or tombstoned
EntriesOf(store, k) ==
    {i \in 0..(store.num_entries - 1) : store.entries[i].key = k}

\* The version the store holds for k: that of the entry written last for k
KeyVersion(store, k) ==
    IF EntriesOf(store, k) = {} THEN 0
    ELSE LET last == CHOOSE i \in EntriesOf(store, k) :
                         \A j \in EntriesOf(store, k) : j <= i
         IN  store.entries[last].version

\* The call just made was op on key k and it succeeded
Succeeded(op, k) ==
    /\ hist'.calls = hist.calls + 1
    /\ ret'.op = op /\ ret'.key = k /\ ret'.result = 0 /\ ~ret'.error

\* C12: every successful put or delete of a key k strictly increases the
\* version the store holds for k, a put of k that follows a delete of k with
\* the tombstone still in place included, and the first creation of k gives
\* version 1.
C12_VersionStrictlyIncreases ==
    [][\A k \in StoreKeys :
          (Succeeded("put", k) \/ Succeeded("delete", k))
          => IF EntriesOf(kv, k) = {} THEN KeyVersion(kv', k) = 1
             ELSE KeyVersion(kv', k) > KeyVersion(kv, k)]_vars

\* C13: when a key k is live (it was put and not deleted since) and
\* put(k, v2) succeeds, get(k) returns v2 and the version it reports is the
\* version k had after the earlier put plus one.
C13_SecondPutBumpsVersion ==
    [][\A k \in StoreKeys :
          (pgraft_kv_exists(kv, k) /\ Succeeded("put", k))
          => LET before == pgraft_kv_get(kv, k)
                 after == pgraft_kv_get(kv', k)
             IN  /\ after.result = 0
                 /\ after.value = ret'.value
                 /\ after.version = before.version + 1]_vars

\* A second put of a live key has just returned with a new value
C13_SecondPutDone ==
    /\ ret.op = "put" /\ ret.result = 0 /\ ret.value = "2"
    /\ pgraft_kv_get(kv, ret.key).value = "2"
    /\ pgraft_kv_get(kv, ret.key).version = 2

(***************************************************************************)
(* Sessions calling the store at the same time                             *)
(*                                                                         *)
(* Every backend runs its call statement by statement; the steps of two    *)
(* sessions interleave, and store->mutex is the only thing that keeps them *)
(* apart.  proc.mutex is the holder of store->mutex, proc.ses[p] the       *)
(* position and the locals of session p.                                   *)
(***************************************************************************)
MaxSessionCalls == 5

Sessions == {"s1", "s2"}

NoHolder == "free"

\* A lock that never makes a caller wait: the statements on concurrent
\* sessions must tell it from the spinlock
LockNeverHeld(mutex) == TRUE

\* The spinlock can be taken
SpinLockFree(mutex) == mutex = NoHolder

\* The keys of the entries that are not deleted, as a set
LiveKeys(store) ==
    {store.entries[i].key : i \in {j \in 0..(store.num_entries - 1) :
                                       ~store.entries[j].deleted}}

IdleSession ==
    [pc |-> "idle", op |-> "none", key |-> NULL, value |-> NULL,
     entry_index |-> -1, i |-> 0, keys |-> <<>>, snaps |-> {}]

\* pgraft_kv_put from the test of entry_index to the counters, with the
\* entry_index found earlier in the call
pgraft_kv_put_entry(store, entry_index, key, value, log_index) ==
    LET counted(s) == [s EXCEPT !.puts = @ + 1, !.total_operations = @ + 1,
                                !.last_applied_index = log_index]
    IN  IF entry_index >= 0
        THEN KvOutcome(counted([store EXCEPT
                 !.entries[entry_index].value = value,
                 !.entries[entry_index].version = @ + 1,
                 !.entries[entry_index].log_index = log_index,
                 !.entries[entry_index].deleted = FALSE]), 0, FALSE, TRUE)
        ELSE IF store.num_entries >= KV_MAX_ENTRIES
        THEN KvOutcome(store, -1, TRUE, FALSE)
        ELSE KvOutcome(counted([store EXCEPT
                 !.entries[store.num_entries] =
                     [key |-> key, value |-> value, version |-> 1,
                      log_index |-> log_index, deleted |-> FALSE],
                 !.num_entries = @ + 1]), 0, FALSE, TRUE)

SessionInit ==
    /\ cluster = InitCluster
    /\ worker = [InitWorker EXCEPT !.status = "RUNNING"]
    /\ kv = pgraft_kv_init_shared_memory(InitFiles)
    /\ go = [InitGo EXCEPT !.loaded = TRUE]
    /\ files = InitFiles
    /\ sleep_count = 0
    /\ now = 0
    /\ log_state = InitLogState
    /\ ret = StoreRet("none", NULL, 0, FALSE, NULL, 0, <<>>)
    /\ proc = [mutex |-> NoHolder, ses |-> [p \in Sessions |-> IdleSession]]
    /\ hist = NoHist

SessionFrame == UNCHANGED <<cluster, worker, go, sleep_count, now, log_state>>

\* Session p moves on; a scan under way in a session sees the store as the
\* step leaves it
Step(p, mutex, session, store) ==
    [mutex |-> mutex,
     ses |-> [q \in Sessions |->
                 IF q = p THEN session
                 ELSE IF proc.ses[q].pc = "scan"
                 THEN [proc.ses[q] EXCEPT !.snaps = @ \cup {LiveKeys(store)}]
                 ELSE proc.ses[q]]]

\* A backend starts a statement
session_call(p, op, key, value) ==
    /\ proc.ses[p].pc = "idle"
    /\ hist.calls < MaxSessionCalls
    /\ hist' = [hist EXCEPT !.calls = @ + 1]
    /\ proc' = Step(p, proc.mutex,
                    [IdleSession EXCEPT
                        !.pc = IF op = "list_keys" THEN "scan" ELSE "acquire",
                        !.op = op, !.key = key, !.value = value,
                        !.snaps = IF op = "list_keys" THEN {LiveKeys(kv)}
                                  ELSE {}], kv)
    /\ UNCHANGED <<kv, files, ret>>
    /\ SessionFrame

\* SpinLockAcquire(&store->mutex), in the operation and in the save
SpinLockAcquire(p) ==
    /\ proc.ses[p].pc \in {"acquire", "save_acquire"}
    /\ SpinLockFree(proc.mutex)
    /\ proc' = Step(p, p,
                    [proc.ses[p] EXCEPT
                        !.pc = IF @ = "save_acquire" THEN "fwrite"
                               ELSE IF proc.ses[p].op = "put" THEN "find"
                               ELSE "locked"], kv)
    /\ UNCHANGED <<kv, files, ret, hist>>
    /\ SessionFrame

\* entry_index = pgraft_kv_find_entry_index(key) in pgraft_kv_put
put_find(p) ==
    /\ proc.ses[p].pc = "find"
    /\ proc' = Step(p, proc.mutex,
                    [proc.ses[p] EXCEPT
                        !.pc = "locked",
                        !.entry_index =
                            pgraft_kv_find_entry_index(kv, proc.ses[p].key)],
                    kv)
    /\ UNCHANGED <<kv, files, ret, hist>>
    /\ SessionFrame

\* The statements of an operation between SpinLockAcquire and
\* SpinLockRelease, and the release
locked_body(p) ==
    LET s == proc.ses[p]
        out == CASE s.op = "put" ->
                      pgraft_kv_put_entry(kv, s.entry_index, s.key, s.value, 0)
                 [] s.op = "delete" -> pgraft_kv_delete(kv, s.key, 0)
                 [] s.op = "compact" ->
                      KvOutcome(pgraft_kv_compact(kv), 0, FALSE, TRUE)
                 [] OTHER -> KvOutcome(pgraft_kv_reset(kv), 0, FALSE, FALSE)
        next == IF out.save THEN "fopen"
                ELSE IF s.op = "reset" THEN "unlink" ELSE "idle"
    IN  /\ s.pc = "locked"
        /\ kv' = out.store
        /\ proc' = Step(p, NoHolder,
                        IF next = "idle" THEN IdleSession
                        ELSE [s EXCEPT !.pc = next], out.store)
        /\ ret' = IF next = "idle"
                  THEN StoreRet(s.op, s.key, out.result, out.error, s.value, 0,
                                <<>>)
                  ELSE ret
        /\ UNCHANGED <<files, hist>>
        /\ SessionFrame

\* unlink(PGRAFT_KV_PERSIST_FILE) at the end of pgraft_kv_reset
reset_unlink(p) ==
    /\ proc.ses[p].pc = "unlink"
    /\ files' = unlink_kv_file(files)
    /\ proc' = Step(p, proc.mutex, IdleSession, kv)
    /\ ret' = StoreRet("reset", NULL, 0, FALSE, NULL, 0, <<>>)
    /\ UNCHANGED <<kv, hist>>
    /\ SessionFrame

\* pgraft_kv_save_to_disk: fopen(path, "wb") leaves an empty file
save_fopen(p) ==
    /\ proc.ses[p].pc = "fopen"
    /\ files' = [files EXCEPT !.kv = [exists |-> TRUE, complete |-> FALSE,
                                      data |-> EmptyStore]]
    /\ proc' = Step(p, proc.mutex, [proc.ses[p] EXCEPT !.pc = "save_acquire"],
                    kv)
    /\ UNCHANGED <<kv, ret, hist>>
    /\ SessionFrame

\* pgraft_kv_save_to_disk: fwrite(store, sizeof(pgraft_kv_store_t), 1, file)
save_fwrite(p) ==
    /\ proc.ses[p].pc = "fwrite"
    /\ files' = pgraft_kv_save_to_disk(files, kv)
    /\ proc' = Step(p, proc.mutex, [proc.ses[p] EXCEPT !.pc = "save_release"],
                    kv)
    /\ UNCHANGED <<kv, ret, hist>>
    /\ SessionFrame

\* pgraft_kv_save_to_disk: SpinLockRelease, fclose, and the caller's return
save_release(p) ==
    /\ proc.ses[p].pc = "save_release"
    /\ proc' = Step(p, NoHolder, IdleSession, kv)
    /\ ret' = StoreRet(proc.ses[p].op, proc.ses[p].key, 0, FALSE,
                       proc.ses[p].value, 0, <<>>)
    /\ UNCHANGED <<kv, files, hist>>
    /\ SessionFrame

\* One round of the loop of pgraft_json_create_key_list, or its end
list_keys_step(p) ==
    LET s == proc.ses[p]
    IN  /\ s.pc = "scan"
        /\ IF s.i < kv.num_entries
           THEN /\ proc' = Step(p, proc.mutex,
                       [s EXCEPT !.i = @ + 1,
                                 !.keys = IF ~kv.entries[s.i].deleted
                                          THEN Append(@, kv.entries[s.i].key)
                                          ELSE @], kv)
                /\ UNCHANGED ret
           ELSE /\ proc' = Step(p, proc.mutex, IdleSession, kv)
                /\ ret' = StoreRet("list_keys", NULL, 0, FALSE, NULL, 0, s.keys)
        /\ UNCHANGED <<kv, files, hist>>
        /\ SessionFrame

SessionNext ==
    \E p \in Sessions :
        \/ \E k \in StoreKeys : session_call(p, "put", k, "1")
        \/ \E k \in StoreKeys : session_call(p, "delete", k, NULL)
        \/ \E op \in {"compact", "reset", "list_keys"} :
               session_call(p, op, NULL, NULL)
        \/ SpinLockAcquire(p)
        \/ put_find(p)
        \/ locked_body(p)
        \/ reset_unlink(p)
        \/ save_fopen(p)
        \/ save_fwrite(p)
        \/ save_release(p)
        \/ list_keys_step(p)

SessionSpec == SessionInit /\ [][SessionNext]_vars

\* C14: in every reachable state, whatever the interleaving of the put,
\* delete, compact and reset calls of concurrent sessions, no two entries
\* among entries[0..num_entries) that are not deleted hold the same key.
C14_OneLiveEntryPerKey ==
    \A i, j \in 0..(kv.num_entries - 1) :
        (i # j /\ ~kv.entries[i].deleted /\ ~kv.entries[j].deleted)
        => kv.entries[i].key # kv.entries[j].key

\* Two sessions put the same key at the same time: one has written its entry,
\* the other holds the lock and has found that entry
C14_ConcurrentPuts ==
    \E p, q \in Sessions :
        /\ p # q
        /\ proc.ses[p].op = "put" /\ proc.ses[q].op = "put"
        /\ proc.ses[p].key = proc.ses[q].key
        /\ proc.ses[p].pc = "fopen"
        /\ proc.ses[q].pc = "locked" /\ proc.ses[q].entry_index >= 0
        /\ \E i \in 0..(kv.num_entries - 1) : kv.entries[i].deleted

(***************************************************************************)
(* Deletion and tombstones                                                 *)
(***************************************************************************)
\* The elements of a sequence
Range(seq) == {seq[n] : n \in 1..Len(seq)}

\* C15: a successful delete(k) makes exists(k) false, makes get(k) fail and
\* takes k out of list_keys(); the entry stays in the array as a tombstone
\* with the version and the log index the delete gave it, and no later put,
\* delete or get changes a tombstone (only compact removes it).
C15_DeleteHidesKeyTombstoneKept ==
    [][/\ \A k \in StoreKeys :
             Succeeded("delete", k)
             => LET e == pgraft_kv_find_entry_index(kv, k)
                IN  /\ ~pgraft_kv_exists(kv', k)
                    /\ pgraft_kv_get(kv', k).result = -1
                    /\ k \notin Range(pgraft_kv_list_keys(kv'))
                    /\ kv'.entries[e].deleted
                    /\ kv'.entries[e].key = k
                    /\ kv'.entries[e].version = kv.entries[e].version + 1
                    /\ kv'.entries[e].log_index = kv'.last_applied_index
       /\ (hist'.calls = hist.calls + 1 /\ ret'.op \in {"put", "delete", "get"})
          => \A i \in 0..(kv.num_entries - 1) :
                 kv.entries[i].deleted => kv'.entries[i] = kv.entries[i]]_vars

\* A key was deleted and then put again: its tombstone and its new entry are
\* both in the array
C15_PutOverTombstone ==
    /\ ret.op = "put" /\ ret.result = 0
    /\ \E i, j \in 0..(kv.num_entries - 1) :
          /\ kv.entries[i].key = ret.key /\ kv.entries[i].deleted
          /\ kv.entries[j].key = ret.key /\ ~kv.entries[j].deleted

(***************************************************************************)
(* Compaction                                                              *)
(***************************************************************************)
\* The entries that are not deleted, from entry i on, in the order of the array
RECURSIVE LiveEntriesFrom(_, _)
LiveEntriesFrom(store, i) ==
    IF i >= store.num_entries THEN <<>>
    ELSE IF store.entries[i].deleted THEN LiveEntriesFrom(store, i + 1)
    ELSE <<store.entries[i]>> \o LiveEntriesFrom(store, i + 1)

\* C16: compact() removes exactly the tombstones: the live entries are kept
\* with their values and versions in the same order at the front of the
\* array, num_entries becomes their number, and a second compact() right
\* after the first leaves num_entries and everything else as it is.
C16_CompactKeepsLiveEntries ==
    [][(hist'.calls = hist.calls + 1 /\ ret'.op = "compact")
       => LET live == LiveEntriesFrom(kv, 0)
          IN  /\ kv'.num_entries = Len(live)
              /\ \A i \in 0..(KV_MAX_ENTRIES - 1) :
                     kv'.entries[i] = IF i < Len(live) THEN live[i + 1]
                                      ELSE ZeroEntry
              /\ LiveEntriesFrom(kv', 0) = live
              /\ pgraft_kv_compact(kv') = kv'
              /\ pgraft_kv_compact(kv').num_entries = kv'.num_entries]_vars

\* put, put, delete of the first key, compact: the compaction has removed a
\* tombstone and moved the entry behind it to the front
C16_CompactedOverTombstone ==
    /\ ret.op = "compact" /\ hist.calls = 4
    /\ kv.puts = 2 /\ kv.deletes = 1
    /\ kv.num_entries = 1
    /\ kv.entries[0].log_index = 2 /\ ~kv.entries[0].deleted

(***************************************************************************)
(* Limits of the store                                                     *)
(***************************************************************************)
\* The call just made was a put of key with value
PutCalled(key, value) ==
    /\ hist'.calls = hist.calls + 1
    /\ ret'.op = "put" /\ ret'.key = key /\ ret'.value = value

\* The call was refused and left the store and its file as they were
Rejected == ret'.result < 0 /\ ret'.error /\ kv' = kv /\ files' = files

\* C17: a put whose key has 256 bytes or more, or whose value has 1024 bytes
\* or more, is rejected and the store is not touched; a put of a key without
\* live entry into a store whose array is full (live and tombstoned entries
\* together) fails and the store is not touched; num_entries never exceeds
\* the size of the array.
C17_PutLimits ==
    /\ [](kv.num_entries <= KV_MAX_ENTRIES)
    /\ [][/\ \A k \in StoreKeys \cup {KeyTooLong}, v \in Values \cup {ValueTooLong} :
               (PutCalled(k, v) /\ (k = KeyTooLong \/ v = ValueTooLong))
               => Rejected
          /\ \A k \in StoreKeys, v \in Values :
               (PutCalled(k, v) /\ kv.num_entries = KV_MAX_ENTRIES
                    /\ ~pgraft_kv_exists(kv, k))
               => Rejected]_vars

\* A put of a key and a value of allowed length has failed on a full array
\* that holds a tombstone
C17_PutOnFullStore ==
    /\ ret.op = "put" /\ ret.error
    /\ ret.key \in StoreKeys /\ ret.value \in Values
    /\ kv.num_entries = KV_MAX_ENTRIES
    /\ \E i \in 0..(kv.num_entries - 1) : kv.entries[i].deleted
    /\ ~pgraft_kv_exists(kv, ret.key)

(***************************************************************************)
(* Snapshot round trip                                                     *)
(***************************************************************************)
\* Two stores hold the same live entries, versions, tombstones and counters
SameStore(a, b) ==
    /\ a.num_entries = b.num_entries
    /\ \A i \in 0..(KV_MAX_ENTRIES - 1) :
          /\ a.entries[i].key = b.entries[i].key
          /\ a.entries[i].value = b.entries[i].value
          /\ a.entries[i].version = b.entries[i].version
          /\ a.entries[i].log_index = b.entries[i].log_index
          /\ a.entries[i].deleted = b.entries[i].deleted
    /\ a.total_operations = b.total_operations
    /\ a.puts = b.puts /\ a.deletes = b.deletes /\ a.gets = b.gets
    /\ a.last_applied_index = b.last_applied_index

\* C18: saving the store to a snapshot and loading the snapshot into a store
\* that was just initialised gives a store with the same live entries (keys
\* and values), versions, tombstones and counters; so a store is recovered
\* as it was after every call that saved it.
C18_SnapshotRoundTrip ==
    /\ LET loaded == pgraft_kv_load_from_disk(
                         EmptyStore, pgraft_kv_save_to_disk(files, kv))
       IN  loaded.result = 0 /\ SameStore(loaded.store, kv)
    /\ (ret.op \in {"put", "delete", "compact"} /\ ret.result = 0)
       => SameStore(pgraft_kv_init_shared_memory(files), kv)

\* A put has saved a store that holds a live entry and a tombstone and has
\* counted a put, a delete and a get
C18_SavedStoreWithTombstone ==
    /\ ret.op = "put" /\ ret.result = 0
    /\ files.kv.exists /\ files.kv.complete
    /\ kv.gets >= 1 /\ kv.deletes >= 1 /\ kv.last_applied_index >= 1
    /\ \E i, j \in 0..(kv.num_entries - 1) :
          kv.entries[i].deleted /\ ~kv.entries[j].deleted

(***************************************************************************)
(* File I/O and the lock                                                   *)
(***************************************************************************)
\* C19: no session writes to a file while it holds the lock of the shared
\* structure: the snapshot is written from a copy, after the release.
C19_NoFileIoUnderLock ==
    [][\A p \in Sessions :
          (proc'.ses[p] # proc.ses[p] /\ files' # files) => proc.mutex # p]_vars

(***************************************************************************)
(* list_keys and concurrent writers                                        *)
(***************************************************************************)
\* C20: list_keys holds the lock of the store from its first to its last
\* statement, so with a put, delete or compact running in another session
\* the keys it returns are the live keys of one of the states the store was
\* in during the call, each of them once.
C20_ListKeysIsOneState ==
    [][\A p \in Sessions :
          (proc.ses[p].pc = "scan" /\ proc'.ses[p].pc = "idle")
          => /\ Range(ret'.keys) \in proc.ses[p].snaps
             /\ Len(ret'.keys) = Cardinality(Range(ret'.keys))]_vars

(***************************************************************************)
(* The tracker on its own: calls of the functions of pgraft_log.c          *)
(***************************************************************************)
MaxLogCalls == 6

LogDataTooLong == "data-of-1025-bytes"

\* The indices callers pass to commit, apply and cleanup
LogIndices == 1..(LOG_MAX_ENTRIES + 1)

LogInit ==
    /\ cluster = InitCluster
    /\ worker = [InitWorker EXCEPT !.status = "RUNNING"]
    /\ kv = EmptyStore
    /\ go = [InitGo EXCEPT !.loaded = TRUE]
    /\ files = InitFiles
    /\ sleep_count = 0
    /\ now = 0
    /\ log_state = InitLogState
    /\ ret = Ret("none", 0, 0, FALSE)
    /\ proc = [main |-> "up"]
    /\ hist = NoHist

LogFrame == UNCHANGED <<cluster, worker, kv, go, files, sleep_count, now, proc>>

LogCall ==
    /\ hist.calls < MaxLogCalls
    /\ hist' = [hist EXCEPT !.calls = @ + 1]

log_append(term, data, data_size) ==
    LET out == pgraft_log_append_entry(log_state, term, data, data_size)
    IN  /\ LogCall
        /\ log_state' = out.state
        /\ ret' = Ret("append", data_size, out.result, out.error)
        /\ LogFrame

log_commit(index) ==
    LET out == pgraft_log_commit_entry(log_state, index)
    IN  /\ LogCall
        /\ log_state' = out.state
        /\ ret' = Ret("commit", index, out.result, out.error)
        /\ LogFrame

log_apply(index) ==
    LET out == pgraft_log_apply_entry(log_state, index)
    IN  /\ LogCall
        /\ log_state' = out.state
        /\ ret' = Ret("apply", index, out.result, out.error)
        /\ LogFrame

log_cleanup(before_index) ==
    /\ LogCall
    /\ log_state' = pgraft_log_cleanup_old_entries(log_state, before_index)
    /\ ret' = Ret("cleanup", before_index, 0, FALSE)
    /\ LogFrame

log_reset ==
    /\ LogCall
    /\ log_state' = pgraft_log_reset(log_state)
    /\ ret' = Ret("reset", 0, 0, FALSE)
    /\ LogFrame

LogNext ==
    \/ \E term \in 1..MaxTerm : log_append(term, "x", 1)
    \/ log_append(1, LogDataTooLong, LOG_DATA_SIZE + 1)
    \/ \E index \in LogIndices : log_commit(index)
    \/ \E index \in LogIndices : log_apply(index)
    \/ \E index \in LogIndices : log_cleanup(index)
    \/ log_reset

LogSpec == LogInit /\ [][LogNext]_vars

(***************************************************************************)
(* Indices of the tracker                                                  *)
(***************************************************************************)
\* The call just made was op and it returned result
LogCalled(op, result) ==
    /\ hist'.calls = hist.calls + 1
    /\ ret'.op = op /\ ret'.result = result

\* C21: the tracker starts with last_index 0, every successful append gives
\* its entry the index last_index + 1 and makes it the new last_index, and
\* commit, apply and cleanup_before leave last_index alone: the indices
\* assigned are 1, 2, 3, ... without gap, and the entries in the array carry
\* strictly increasing indices.
C21_IndicesGapless ==
    /\ log_state.last_index = 0
    /\ [](\A i, j \in 0..(log_state.log_size - 1) :
             /\ log_state.entries[i].index >= 1
             /\ log_state.entries[i].index <= log_state.last_index
             /\ i < j => log_state.entries[i].index < log_state.entries[j].index)
    /\ [][/\ LogCalled("append", 0)
             => /\ log_state'.last_index = log_state.last_index + 1
                /\ log_state'.log_size = log_state.log_size + 1
                /\ log_state'.entries[log_state.log_size].index
                       = log_state.last_index + 1
          /\ (hist'.calls = hist.calls + 1
                 /\ ret'.op \in {"commit", "apply", "cleanup"})
             => log_state'.last_index = log_state.last_index]_vars

\* An append has succeeded after a cleanup made room in a full array: it got
\* an index beyond the size of the array, next to a committed entry
C21_AppendAfterCleanup ==
    /\ ret.op = "append" /\ ret.result = 0
    /\ log_state.last_index = LOG_MAX_ENTRIES + 1
    /\ \E i \in 0..(log_state.log_size - 1) : log_state.entries[i].committed = 1

(***************************************************************************)
(* Calls out of order                                                      *)
(***************************************************************************)
\* The positions of the array that hold index
HoldersOf(state, index) ==
    {i \in 0..(state.log_size - 1) : state.entries[i].index = index}

\* The call just made was op for index
LogCalledFor(op, index) ==
    /\ hist'.calls = hist.calls + 1
    /\ ret'.op = op /\ ret'.index = index

\* C22: commit(i) for an index no entry carries (none was appended with it)
\* returns -1 and changes nothing; apply(i) for an entry that is appended but
\* not committed returns -1 and changes nothing; apply(i) for an index no
\* entry carries returns -1 and changes nothing.
C22_OutOfOrderCallsFail ==
    [][\A index \in LogIndices :
          /\ (LogCalledFor("commit", index) /\ HoldersOf(log_state, index) = {})
             => (ret'.result = -1 /\ log_state' = log_state)
          /\ (LogCalledFor("apply", index) /\ HoldersOf(log_state, index) = {})
             => (ret'.result = -1 /\ log_state' = log_state)
          /\ (LogCalledFor("apply", index)
                 /\ \E i \in HoldersOf(log_state, index) :
                        log_state.entries[i].committed = 0)
             => (ret'.result = -1 /\ log_state' = log_state)]_vars

\* apply has just failed on an entry that is in the log but not committed,
\* while another entry is committed
C22_ApplyBeforeCommit ==
    /\ ret.op = "apply" /\ ret.result = -1
    /\ \E i \in HoldersOf(log_state, ret.index) :
          log_state.entries[i].committed = 0
    /\ \E j \in 0..(log_state.log_size - 1) : log_state.entries[j].committed = 1

(***************************************************************************)
(* Progress of an entry                                                    *)
(***************************************************************************)
\* C23: in every reachable state each entry of the log whose applied flag is
\* set has its committed flag set, and as long as an entry is in the log its
\* flags only go from unset to set: appended, then committed, then applied.
C23_AppliedImpliesCommitted ==
    /\ [](\A i \in 0..(log_state.log_size - 1) :
             log_state.entries[i].applied = 1
             => log_state.entries[i].committed = 1)
    /\ [][ret'.op # "reset"
          => \A i \in 0..(log_state.log_size - 1),
                j \in 0..(log_state'.log_size - 1) :
                 log_state.entries[i].index = log_state'.entries[j].index
                 => /\ log_state'.entries[j].committed
                           >= log_state.entries[i].committed
                    /\ log_state'.entries[j].applied
                           >= log_state.entries[i].applied]_vars

\* The log holds an applied entry, an entry that is committed only and an
\* entry that is appended only
C23_AllThreeStages ==
    \E i, j, k \in 0..(log_state.log_size - 1) :
        /\ log_state.entries[i].applied = 1
        /\ log_state.entries[j].committed = 1 /\ log_state.entries[j].applied = 0
        /\ log_state.entries[k].committed = 0

(***************************************************************************)
(* commit_index and last_applied                                           *)
(***************************************************************************)
\* The larger of two numbers
Max(a, b) == IF a > b THEN a ELSE b

\* C24: over append, commit, apply and cleanup_before calls commit_index and
\* last_applied never decrease; a successful commit(i) leaves commit_index at
\* max(commit_index, i) and a successful apply(i) leaves last_applied at
\* max(last_applied, i), whatever the order of the indices.
C24_CountersOnlyForward ==
    [][/\ (hist'.calls = hist.calls + 1
              /\ ret'.op \in {"append", "commit", "apply", "cleanup"})
          => /\ log_state'.commit_index >= log_state.commit_index
             /\ log_state'.last_applied >= log_state.last_applied
       /\ \A index \in LogIndices :
             /\ (LogCalledFor("commit", index) /\ ret'.result = 0)
                => /\ log_state'.commit_index
                          = Max(log_state.commit_index, index)
                   /\ log_state'.last_applied = log_state.last_applied
             /\ (LogCalledFor("apply", index) /\ ret'.result = 0)
                => /\ log_state'.last_applied
                          = Max(log_state.last_applied, index)
                   /\ log_state'.commit_index = log_state.commit_index]_vars

\* An entry has been applied after an entry with a higher index, the two
\* having been committed one after the other
C24_AppliedOutOfOrder ==
    /\ ret.op = "apply" /\ ret.result = 0
    /\ ret.index < log_state.last_applied
    /\ ret.index < log_state.commit_index

(***************************************************************************)
(* Limits of the log                                                       *)
(***************************************************************************)
\* C25: an append to a log that holds as many entries as the array has
\* slots, or with a payload larger than 1024 bytes, fails and leaves log_size,
\* last_index, the entries and the counters as they were; log_size never
\* exceeds the size of the array.
C25_AppendLimits ==
    /\ [](log_state.log_size <= LOG_MAX_ENTRIES)
    /\ [][(hist'.calls = hist.calls + 1 /\ ret'.op = "append"
              /\ (log_state.log_size = LOG_MAX_ENTRIES
                     \/ ret'.index > LOG_DATA_SIZE))
          => /\ ret'.result = -1 /\ ret'.error
             /\ log_state' = log_state]_vars

\* An append with a payload of allowed size has failed on a full log whose
\* entries are committed in part
C25_AppendOnFullLog ==
    /\ ret.op = "append" /\ ret.error /\ ret.index <= LOG_DATA_SIZE
    /\ log_state.log_size = LOG_MAX_ENTRIES
    /\ log_state.commit_index >= 1

(***************************************************************************)
(* Command queue and status buffer with commands of every kind             *)
(***************************************************************************)
MaxQueueCalls == 3

\* The three submit functions with the capacity test taken out
queue_command_without_full_test(w, type, node_id, address, port, cluster_id, t) ==
    [ok |-> TRUE,
     worker |-> [w EXCEPT
         !.commands[w.command_tail] =
             [@ EXCEPT !.type = type, !.node_id = node_id, !.address = address,
                       !.port = port, !.cluster_id = cluster_id,
                       !.status = "PENDING", !.error_message = "",
                       !.timestamp = t],
         !.command_tail = (@ + 1) % MAX_COMMANDS,
         !.command_count = @ + 1]]

\* pgraft_queue_command: the slot is overwritten field by field; the log and
\* KV fields keep what the slot held before
pgraft_queue_command(w, type, node_id, address, port, cluster_id, t) ==
    IF w.command_count >= MAX_COMMANDS THEN [ok |-> FALSE, worker |-> w]
    ELSE [ok |-> TRUE,
          worker |-> [w EXCEPT
              !.commands[w.command_tail] =
                  [@ EXCEPT !.type = type, !.node_id = node_id,
                            !.address = IF address # NULL THEN address ELSE "",
                            !.port = port,
                            !.cluster_id = IF cluster_id # NULL THEN cluster_id
                                           ELSE "",
                            !.status = "PENDING", !.error_message = "",
                            !.timestamp = t],
              !.command_tail = (@ + 1) % MAX_COMMANDS,
              !.command_count = @ + 1]]

pgraft_queue_log_command(w, type, log_data, log_index, t) ==
    IF w.command_count >= MAX_COMMANDS THEN [ok |-> FALSE, worker |-> w]
    ELSE [ok |-> TRUE,
          worker |-> [w EXCEPT
              !.commands[w.command_tail] =
                  [@ EXCEPT !.type = type, !.node_id = 0, !.address = "",
                            !.port = 0, !.cluster_id = "",
                            !.log_data = IF log_data # NULL THEN log_data ELSE "",
                            !.log_index = log_index,
                            !.status = "PENDING", !.error_message = "",
                            !.timestamp = t],
              !.command_tail = (@ + 1) % MAX_COMMANDS,
              !.command_count = @ + 1]]

\* The loop of pgraft_remove_completed_commands from record i on, `removed`
\* records passed over so far
RECURSIVE RemoveCompletedFrom(_, _, _)
RemoveCompletedFrom(w, i, removed) ==
    IF i >= w.status_count
    THEN [w EXCEPT !.status_head = (@ + removed) % MAX_COMMANDS,
                   !.status_count = @ - removed]
    ELSE LET index == (w.status_head + i) % MAX_COMMANDS
             status == w.status_commands[index].status
         IN  IF status \in {"COMPLETED", "FAILED"}
             THEN RemoveCompletedFrom(w, i + 1, removed + 1)
             ELSE IF removed > 0
             THEN RemoveCompletedFrom(
                      [w EXCEPT !.status_commands[
                                    (w.status_head + i - removed) % MAX_COMMANDS]
                                    = w.status_commands[index]],
                      i + 1, removed)
             ELSE RemoveCompletedFrom(w, i + 1, removed)

\* A clean-up that lowers status_count and leaves status_head where it was:
\* the statement on head, count and tail of the buffers must tell it from
\* pgraft_remove_completed_commands
remove_completed_count_only(w) ==
    [w EXCEPT !.status_count =
        @ - Cardinality({i \in 0..(w.status_count - 1) :
              w.status_commands[(w.status_head + i) % MAX_COMMANDS].status
                  \in {"COMPLETED", "FAILED"}})]

pgraft_remove_completed_commands(w) == RemoveCompletedFrom(w, 0, 0)

MAX_NODES == 3              \* slots of the node list (16 in pgraft_core.c)
ADD_PEER_ATTEMPTS == 3

\* pgraft_core_init: nothing is written when the descriptor is already marked
\* initialized; the return value is 0 on both ways
pgraft_core_init(c, node_id, port) ==
    IF c.initialized THEN c
    ELSE [c EXCEPT !.node_id = node_id, !.current_term = 0, !.leader_id = -1,
                   !.state = "follower", !.num_nodes = 1,
                   !.nodes = <<[id |-> node_id, port |-> port,
                                is_leader |-> FALSE]>>,
                   !.initialized = TRUE]

\* pgraft_core_add_node: both refusals end in elog(ERROR)
pgraft_core_add_node(c, node_id, port) ==
    IF ~c.initialized THEN [cluster |-> c, error |-> TRUE]
    ELSE IF c.num_nodes >= MAX_NODES THEN [cluster |-> c, error |-> TRUE]
    ELSE [cluster |-> [c EXCEPT !.nodes = Append(@, [id |-> node_id, port |-> port,
                                                     is_leader |-> FALSE]),
                                !.num_nodes = @ + 1],
          error |-> FALSE]

\* pgraft_core_remove_node: the first node with the id is taken out and the
\* nodes behind it move up
pgraft_core_remove_node(c, node_id) ==
    LET hits == {i \in 1..c.num_nodes : c.nodes[i].id = node_id}
    IN  IF ~c.initialized THEN [cluster |-> c, result |-> -1, error |-> TRUE]
        ELSE IF hits = {} THEN [cluster |-> c, result |-> -1, error |-> FALSE]
        ELSE LET i == CHOOSE h \in hits : \A j \in hits : h <= j
             IN  [cluster |-> [c EXCEPT
                      !.nodes = SubSeq(c.nodes, 1, i - 1)
                                \o SubSeq(c.nodes, i + 1, c.num_nodes),
                      !.num_nodes = @ - 1],
                  result |-> 0, error |-> FALSE]

\* pgraft_remove_node_system: the engine's remove_peer first, then the local
\* node list
pgraft_remove_node_system(c, engine, node_id, ok) ==
    LET local == pgraft_core_remove_node(c, node_id)
        same == [cluster |-> c, go |-> engine, result |-> -1, raised |-> FALSE]
    IN  IF engine.loaded /\ ~ok THEN same
        ELSE IF local.error THEN [same EXCEPT !.raised = TRUE]
        ELSE [same EXCEPT
                 !.cluster = local.cluster, !.result = local.result,
                 !.go = IF engine.loaded
                        THEN [engine EXCEPT !.nodes =
                                 SelectSeq(@, LAMBDA n : n # node_id)]
                        ELSE engine]

\* pgraft_init_system: `ok` tells whether the library, the engine's init and
\* start and the network server all answered 0
pgraft_init_system(c, node_id, port, ok) ==
    [cluster |-> pgraft_core_init(c, node_id, port),
     result |-> IF ok THEN 0 ELSE -1]

\* The engine's membership after it has accepted a peer
add_peer(nodes, node_id) ==
    IF \E i \in 1..Len(nodes) : nodes[i] = node_id THEN nodes
    ELSE Append(nodes, node_id)

\* pgraft_add_node_system: `answer` is the number of the first call of the
\* engine's add_peer that returns 0 (0: none does)
pgraft_add_node_system(c, engine, node_id, port, answer) ==
    LET local == pgraft_core_add_node(c, node_id, port)
        same == [cluster |-> local.cluster, go |-> engine, result |-> 0,
                 attempts |-> 0, raised |-> FALSE]
    IN  IF local.error THEN [same EXCEPT !.raised = TRUE, !.result = -1]
        ELSE IF ~engine.loaded THEN same
        ELSE IF answer = 0
        THEN [same EXCEPT !.result = -1, !.attempts = ADD_PEER_ATTEMPTS]
        ELSE [same EXCEPT !.attempts = answer,
                          !.go = [engine EXCEPT !.nodes = add_peer(@, node_id)]]

\* The switch on cmd.type for every kind of command.  `answer` is the answer
\* of the engine (for add_peer the number of the first attempt that succeeds,
\* for the other calls success when it is not 0); the log commands act on the
\* tracker.  `raised` tells that elog(ERROR) left the loop before the status
\* was written.
pgraft_main_switch(c, w, engine, ls, cmd, answer, t) ==
    LET ok == answer > 0
        done(w1, status, msg) ==
            pgraft_update_command_status(w1, cmd.timestamp, status, msg)
        same == [cluster |-> c, worker |-> w, go |-> engine, log_state |-> ls,
                 raised |-> FALSE]
    IN  CASE cmd.type = "COMMAND_INIT" ->
               LET r == pgraft_init_system(c, cmd.node_id, cmd.port, ok)
               IN  IF r.result = 0
                   THEN [same EXCEPT
                            !.cluster = r.cluster,
                            !.worker =
                                done([w EXCEPT !.node_id = cmd.node_id,
                                               !.address = cmd.address,
                                               !.port = cmd.port,
                                               !.status = "RUNNING"],
                                     "COMPLETED", cmd.error_message)]
                   ELSE [same EXCEPT
                            !.cluster = r.cluster,
                            !.worker = done(w, "FAILED",
                                            "Failed to initialize pgraft system")]
          [] cmd.type = "COMMAND_ADD_NODE" ->
               LET r == pgraft_add_node_system(c, engine, cmd.node_id, cmd.port,
                                               answer)
               IN  IF r.raised THEN [same EXCEPT !.raised = TRUE]
                   ELSE [same EXCEPT
                            !.cluster = r.cluster,
                            !.go = r.go,
                            !.worker =
                                IF r.result = 0
                                THEN done(w, "COMPLETED", cmd.error_message)
                                ELSE done(w, "FAILED",
                                          "Failed to add node "
                                          \o ToString(cmd.node_id)
                                          \o " to pgraft system")]
          [] cmd.type = "COMMAND_REMOVE_NODE" ->
               LET r == pgraft_remove_node_system(c, engine, cmd.node_id, ok)
               IN  IF r.raised THEN [same EXCEPT !.raised = TRUE]
                   ELSE [same EXCEPT
                            !.cluster = r.cluster,
                            !.go = r.go,
                            !.worker =
                                IF r.result = 0
                                THEN done(w, "COMPLETED", cmd.error_message)
                                ELSE done(w, "FAILED",
                                          "Failed to remove node "
                                          \o ToString(cmd.node_id)
                                          \o " from pgraft system")]
          [] cmd.type = "COMMAND_LOG_APPEND" ->
               LET out == pgraft_log_append_entry(ls, cmd.log_index,
                              cmd.log_data, strlen(cmd.log_data))
               IN  IF out.error THEN [same EXCEPT !.raised = TRUE]
                   ELSE [same EXCEPT
                            !.log_state = out.state,
                            !.worker = IF out.result = 0
                                       THEN done(w, "COMPLETED", cmd.error_message)
                                       ELSE done(w, "FAILED",
                                                 "Failed to append log entry at index "
                                                 \o ToString(cmd.log_index))]
          [] cmd.type = "COMMAND_LOG_COMMIT" ->
               LET out == pgraft_log_commit_entry(ls, cmd.log_index)
               IN  [same EXCEPT
                       !.log_state = out.state,
                       !.worker = IF out.result = 0
                                  THEN done(w, "COMPLETED", cmd.error_message)
                                  ELSE done(w, "FAILED",
                                            "Failed to commit log entry at index "
                                            \o ToString(cmd.log_index))]
          [] cmd.type = "COMMAND_LOG_APPLY" ->
               LET out == pgraft_log_apply_entry(ls, cmd.log_index)
               IN  [same EXCEPT
                       !.log_state = out.state,
                       !.worker = IF out.result = 0
                                  THEN done(w, "COMPLETED", cmd.error_message)
                                  ELSE done(w, "FAILED",
                                            "Failed to apply log entry at index "
                                            \o ToString(cmd.log_index))]
          [] OTHER ->
               LET x == pgraft_main_execute(w, engine, cmd, ok, t)
               IN  [same EXCEPT !.worker = x.worker, !.go = x.go]

\* The worker has loaded and started the engine, marked itself running and
\* gone through the refresh of its first iteration
QueueStart ==
    pgraft_update_shared_memory_from_go(
        InitCluster, [InitWorker EXCEPT !.status = "RUNNING"], InitFiles,
        [InitGo EXCEPT !.loaded = TRUE], TRUE)

QueueInit ==
    /\ cluster = QueueStart.cluster
    /\ worker = QueueStart.worker
    /\ kv = EmptyStore
    /\ go = [InitGo EXCEPT !.loaded = TRUE]
    /\ files = QueueStart.files
    /\ sleep_count = 0
    /\ now = 0
    /\ log_state = InitLogState
    /\ ret = Ret("none", 0, 0, FALSE)
    /\ proc = [main |-> "loop", cmd |-> ZeroCommand]
    /\ hist = [accepted |-> <<>>, dequeued |-> <<>>, calls |-> 0]

QueueFrame == UNCHANGED <<cluster, kv, files, sleep_count, now>>

\* A backend submits a command: what the queue function returned, and the
\* command as it stands in the queue when it was accepted
Submitted(r, op) ==
    /\ proc.main \in {"loop", "stopped"}
    /\ hist.calls < MaxQueueCalls
    /\ worker' = r.worker
    /\ ret' = Ret(op, hist.calls + 1, IF r.ok THEN 1 ELSE 0, FALSE)
    /\ hist' = [hist EXCEPT
                   !.calls = @ + 1,
                   !.accepted = IF r.ok
                                THEN Append(@, r.worker.commands[worker.command_tail])
                                ELSE @]
    /\ UNCHANGED <<go, log_state, proc>>
    /\ QueueFrame

\* Node commands carry the number of the submission as node id; a log append
\* carries its term in log_index, a log commit its index and no data
queue_node_command(type) ==
    Submitted(pgraft_queue_command(worker, type, hist.calls + 1, "127.0.0.1",
                                   5432, "c1", now), "queue_command")

queue_log_command(type, log_data, log_index) ==
    Submitted(pgraft_queue_log_command(worker, type, log_data, log_index, now),
              "queue_log_command")

queue_kv_command(type, value) ==
    Submitted(pgraft_queue_kv_command(worker, type, "alpha", value, "pg_1", now),
              "queue_kv_command")

\* The worker's loop from its top to the switch: a command is dequeued and
\* copied into the status buffer, then the local copy is marked PROCESSING
worker_dequeue ==
    LET d == pgraft_dequeue_command(worker)
    IN  /\ proc.main = "loop"
        /\ worker.status # "STOPPED"
        /\ d.ok
        /\ worker' = pgraft_add_command_to_status(d.worker, d.cmd)
        /\ proc' = [main |-> "switch",
                    cmd |-> [d.cmd EXCEPT !.status = "PROCESSING"]]
        /\ hist' = [hist EXCEPT !.dequeued = Append(@, d.cmd)]
        /\ UNCHANGED <<go, log_state, ret>>
        /\ QueueFrame

\* The switch and the rest of the iteration
worker_switch(answer) ==
    LET x == pgraft_main_switch(cluster, worker, go, log_state, proc.cmd, answer,
                                now)
    IN  /\ proc.main = "switch"
        /\ cluster' = x.cluster
        /\ worker' = x.worker
        /\ go' = x.go
        /\ log_state' = x.log_state
        /\ proc' = [main |-> IF x.raised THEN "raised"
                             ELSE IF x.worker.status = "STOPPED" THEN "stopped"
                             ELSE "loop",
                    cmd |-> proc.cmd]
        /\ UNCHANGED <<ret, hist, kv, files, sleep_count, now>>

\* SELECT of the clean-up of the status buffer
remove_completed_commands ==
    /\ proc.main \in {"loop", "stopped"}
    /\ hist.calls < MaxQueueCalls
    /\ worker.status_count > 0
    /\ worker' = pgraft_remove_completed_commands(worker)
    /\ hist' = [hist EXCEPT !.calls = @ + 1]
    /\ ret' = Ret("remove_completed", hist.calls + 1, 1, FALSE)
    /\ UNCHANGED <<go, log_state, proc>>
    /\ QueueFrame

QueueNext ==
    \/ \E type \in {"COMMAND_ADD_NODE", "COMMAND_SHUTDOWN"} :
           queue_node_command(type)
    \/ queue_log_command("COMMAND_LOG_APPEND", "x", 1)
    \/ queue_log_command("COMMAND_LOG_COMMIT", NULL, 1)
    \/ queue_kv_command("COMMAND_KV_PUT", "1")
    \/ worker_dequeue
    \/ \E answer \in 0..1 : worker_switch(answer)
    \/ remove_completed_commands
    \/ tick_clock

QueueSpec == QueueInit /\ [][QueueNext]_vars

QueueCalled == ret.op \in {"queue_command", "queue_log_command", "queue_kv_command"}

\* C26: a submit of any kind on a full command queue returns false and leaves
\* command_count, command_head, command_tail and every queued command as they
\* were
C26_SubmitOnFullQueue ==
    [][(worker.command_count = MAX_COMMANDS /\ hist'.calls = hist.calls + 1
            /\ QueueCalled')
        => /\ ret'.result = 0
           /\ worker'.command_count = MAX_COMMANDS
           /\ worker'.command_head = worker.command_head
           /\ worker'.command_tail = worker.command_tail
           /\ worker'.commands = worker.commands
           /\ hist'.accepted = hist.accepted]_vars

\* Witness of C26: a submit was turned down while the queue held MAX_COMMANDS
\* commands of two kinds
C26_Rejected ==
    /\ QueueCalled
    /\ ret.result = 0
    /\ worker.command_count = MAX_COMMANDS
    /\ Len(hist.accepted) = MAX_COMMANDS
    /\ hist.accepted[1].type # hist.accepted[2].type

\* C27: the commands come out of the queue in the order in which they were
\* accepted, whatever their kind and across the wrap-around of the buffer:
\* the sequence of dequeued commands is a prefix of the sequence of accepted
\* ones
C27_QueueIsFifo ==
    /\ Len(hist.dequeued) <= Len(hist.accepted)
    /\ \A i \in 1..Len(hist.dequeued) : hist.dequeued[i] = hist.accepted[i]

\* Witness of C27: the worker has just dequeued the command in the last slot
\* of the buffer while a command of another kind, accepted after it into slot
\* 0 again, waits in the queue
C27_DequeuedAfterWrap ==
    /\ proc.main = "switch"
    /\ Len(hist.dequeued) = MAX_COMMANDS
    /\ Len(hist.accepted) = MAX_COMMANDS + 1
    /\ worker.command_count = 1
    /\ worker.command_head = 0
    /\ hist.accepted[MAX_COMMANDS].type # hist.accepted[MAX_COMMANDS + 1].type
    /\ hist.accepted[1].type # hist.accepted[MAX_COMMANDS].type

\* The record the worker has just copied into the status buffer
NewestStatusRecord ==
    worker.status_commands[(worker.status_tail + MAX_COMMANDS - 1) % MAX_COMMANDS]

\* C28: while the worker executes a command it has dequeued, the record of
\* that command in the status buffer carries PROCESSING
C28_RecordIsProcessing ==
    proc.main = "switch" => NewestStatusRecord.status = "PROCESSING"

\* C29: when the worker has executed a command without raising an error, the
\* status record of that command (the newest one) is Completed or Failed,
\* Failed with an error message, and no other status record has changed
C29_OwnRecordUpdated ==
    [][(proc.main = "switch" /\ proc'.main \in {"loop", "stopped"})
        => LET own == (worker.status_tail + MAX_COMMANDS - 1) % MAX_COMMANDS
           IN  /\ worker'.status_commands[own].status \in {"COMPLETED", "FAILED"}
               /\ worker'.status_commands[own].status = "FAILED"
                      => worker'.status_commands[own].error_message # ""
               /\ \A i \in 0..(MAX_COMMANDS - 1) :
                      i # own => worker'.status_commands[i]
                                     = worker.status_commands[i]]_vars

\* The records of the status buffer from the oldest to the newest
StatusSeq(w) ==
    [i \in 1..w.status_count |->
        w.status_commands[(w.status_head + i - 1) % MAX_COMMANDS]]

\* C30: status_count never exceeds MAX_COMMANDS, and a record admitted to a
\* full status buffer takes the place of the oldest one only: the records
\* after the step are the former ones without the first, in their order,
\* followed by the new one (on a buffer that is not full, all former ones
\* followed by the new one)
C30_OldestRecordDropped ==
    /\ [](worker.status_count <= MAX_COMMANDS)
    /\ [][(proc.main = "loop" /\ proc'.main = "switch")
            => LET cmd == hist'.dequeued[Len(hist'.dequeued)]
               IN  StatusSeq(worker')
                       = IF worker.status_count = MAX_COMMANDS
                         THEN Append(Tail(StatusSeq(worker)), cmd)
                         ELSE Append(StatusSeq(worker), cmd)]_vars

\* Witness of C30: MAX_COMMANDS + 1 commands were dequeued and nothing was
\* removed from the status buffer, so that the record of the first command
\* made room for the record of the last
C30_RecordEvicted ==
    /\ proc.main = "switch"
    /\ Len(hist.dequeued) = MAX_COMMANDS + 1
    /\ hist.calls = MAX_COMMANDS + 1
    /\ worker.status_count = MAX_COMMANDS
    /\ StatusSeq(worker)[MAX_COMMANDS] = hist.dequeued[MAX_COMMANDS + 1]
    /\ StatusSeq(worker)[1].type = hist.dequeued[2].type
    /\ hist.dequeued[1].type \notin {hist.dequeued[2].type,
                                     hist.dequeued[MAX_COMMANDS + 1].type}

(***************************************************************************)
(* Node commands: the worker loop with its refresh, and add-node from SQL  *)
(***************************************************************************)
\* What the engine may report as its members when the worker enters the loop
StartNodes == {<<>>, <<ThisNode>>, <<ThisNode, OtherNode>>}

NodeInit ==
    /\ cluster = InitCluster
    /\ worker = [InitWorker EXCEPT !.status = "RUNNING"]
    /\ kv = EmptyStore
    /\ \E nodes \in StartNodes : go = [InitGo EXCEPT !.loaded = TRUE, !.nodes = nodes]
    /\ files = InitFiles
    /\ sleep_count = 0
    /\ now = 0
    /\ log_state = InitLogState
    /\ ret = Ret("none", 0, 0, FALSE)
    /\ proc = [main |-> "loop", cmd |-> ZeroCommand]
    /\ hist = [accepted |-> <<>>, dequeued |-> <<>>, calls |-> 0, message |-> ""]

\* pg_usleep, sleep_count++ and the reset at the alive check
NextSleepCount == IF sleep_count + 1 >= ALIVE_CHECK THEN 0 ELSE sleep_count + 1

\* An iteration up to the switch: the refresh on every 5th pass, then the
\* dequeue.  With no command the iteration ends here.
pgraft_main_top ==
    LET r == IF sleep_count % REFRESH_EVERY = 0
             THEN pgraft_update_shared_memory_from_go(cluster, worker, files, go,
                                                      go.loaded)
             ELSE [cluster |-> cluster, worker |-> worker, files |-> files]
        d == pgraft_dequeue_command(r.worker)
    IN  /\ proc.main = "loop"
        /\ worker.status # "STOPPED"
        /\ cluster' = r.cluster
        /\ files' = r.files
        /\ IF d.ok
           THEN /\ worker' = pgraft_add_command_to_status(d.worker, d.cmd)
                /\ proc' = [main |-> "switch",
                            cmd |-> [d.cmd EXCEPT !.status = "PROCESSING"]]
                /\ hist' = [hist EXCEPT !.dequeued = Append(@, d.cmd)]
                /\ UNCHANGED sleep_count
           ELSE /\ worker' = r.worker
                /\ sleep_count' = NextSleepCount
                /\ UNCHANGED <<proc, hist>>
        /\ UNCHANGED <<kv, go, now, log_state, ret>>

\* The switch, the sleep, and the test of the while condition
pgraft_main_rest(answer) ==
    LET x == pgraft_main_switch(cluster, worker, go, log_state, proc.cmd, answer,
                                now)
    IN  /\ proc.main = "switch"
        /\ cluster' = x.cluster
        /\ worker' = x.worker
        /\ go' = x.go
        /\ log_state' = x.log_state
        /\ sleep_count' = IF x.raised THEN sleep_count ELSE NextSleepCount
        /\ proc' = [main |-> IF x.raised THEN "raised"
                             ELSE IF x.worker.status = "STOPPED" THEN "stopped"
                             ELSE "loop",
                    cmd |-> proc.cmd]
        /\ UNCHANGED <<kv, files, now, ret, hist>>

\* SELECT pgraft_add_node(node_id, address, port) in a backend that has the
\* library (go_is_loaded); leader_status and result are the engine's answers
pgraft_add_node(node_id, port, go_is_loaded, leader_status, result) ==
    LET fail(msg) ==
            /\ ret' = Ret("add_node", node_id, -1, TRUE)
            /\ hist' = [hist EXCEPT !.calls = @ + 1, !.message = msg]
            /\ UNCHANGED go
    IN  /\ proc.main \in {"loop", "stopped"}
        /\ hist.calls < MaxQueueCalls
        /\ IF node_id < 1 \/ node_id > 1000
           THEN fail("invalid node_id")
           ELSE IF port < 1024 \/ port > 65535
           THEN fail("invalid port")
           ELSE IF ~go_is_loaded
           THEN fail("go library not loaded")
           ELSE IF leader_status < 0
           THEN fail("cannot add node - raft consensus not ready")
           ELSE IF leader_status = 0
           THEN fail("cannot add node - this node is not the leader")
           ELSE IF result # 0
           THEN fail("failed to add node")
           ELSE /\ ret' = Ret("add_node", node_id, 0, FALSE)
                /\ hist' = [hist EXCEPT !.calls = @ + 1, !.message = ""]
                /\ go' = [go EXCEPT !.nodes = add_peer(@, node_id)]
        /\ UNCHANGED <<cluster, worker, kv, files, sleep_count, now, log_state,
                       proc>>

\* The engine's answer to is_leader: not ready (-1) or no (0) without a
\* leader, yes when it leads
LeaderStatus ==
    IF go.leader = 0 THEN {-1, 0}
    ELSE IF go.leader = go.node_id THEN {1} ELSE {0}

NodeNext ==
    \/ \E type \in {"COMMAND_INIT", "COMMAND_ADD_NODE", "COMMAND_SHUTDOWN"} :
           queue_node_command(type)
    \/ pgraft_main_top
    \/ \E answer \in 0..ADD_PEER_ATTEMPTS : pgraft_main_rest(answer)
    \/ \E go_is_loaded \in BOOLEAN, leader_status \in LeaderStatus, result \in {0, -1} :
           pgraft_add_node(OtherNode, 5432, go_is_loaded, leader_status, result)
    \/ \E leader \in {0, ThisNode, OtherNode} : go_election(leader)

NodeSpec == NodeInit /\ [][NodeNext]_vars

\* The worker executes the command it has dequeued, of the given type, and the
\* engine answers with success
Executed(type) ==
    /\ proc.cmd.type = type
    /\ \E answer \in 1..ADD_PEER_ATTEMPTS : pgraft_main_rest(answer)

\* C31: when the worker has processed an Init command for node n with
\* success, the cluster descriptor has num_nodes = 1 and node[0].id = n, and
\* the worker state is Running with node id n, however the refresh from the
\* engine falls
C31_InitSetsDescriptor ==
    [][Executed("COMMAND_INIT")
        => /\ cluster'.initialized
           /\ cluster'.num_nodes = 1
           /\ cluster'.nodes[1].id = proc.cmd.node_id
           /\ worker'.status = "RUNNING"
           /\ worker'.node_id = proc.cmd.node_id]_vars

\* SELECT pgraft_add_node(...) has just returned or raised
AddNodeCalled == hist'.calls = hist.calls + 1 /\ ret'.op = "add_node"

IsLeader == go.leader > 0 /\ go.leader = go.node_id

\* C32: add-node on a node that is not the leader is rejected with an error
\* and changes neither the engine's membership nor the cluster descriptor,
\* through the SQL function and through the AddNode command alike; on the
\* leader a successful add-node raises num_nodes by one
C32_AddNodeLeaderOnly ==
    [][/\ (AddNodeCalled /\ ~IsLeader)
            => /\ ret'.error
               /\ hist'.message \in {"cannot add node - this node is not the leader",
                                     "cannot add node - raft consensus not ready",
                                     "go library not loaded"}
               /\ go'.nodes = go.nodes
               /\ cluster' = cluster
       /\ (AddNodeCalled /\ IsLeader /\ ret'.result = 0)
            => cluster'.num_nodes = cluster.num_nodes + 1
       /\ (proc.main = "switch" /\ proc.cmd.type = "COMMAND_ADD_NODE"
              /\ proc'.main # "switch" /\ ~IsLeader)
            => /\ go'.nodes = go.nodes
               /\ cluster' = cluster
               /\ NewestStatusRecord'.status # "COMPLETED"]_vars

\* pgraft_get_command_status: the first record, from the head, that carries
\* the timestamp (ZeroCommand when there is none)
pgraft_get_command_status(w, timestamp) ==
    LET hits == {i \in 0..(w.status_count - 1) :
                    w.status_commands[(w.status_head + i) % MAX_COMMANDS].timestamp
                        = timestamp}
    IN  IF hits = {} THEN [ok |-> FALSE, cmd |-> ZeroCommand]
        ELSE LET i == CHOOSE h \in hits : \A j \in hits : h <= j
             IN  [ok |-> TRUE,
                  cmd |-> w.status_commands[(w.status_head + i) % MAX_COMMANDS]]

\* C33: an executed AddNode command adds the node to the local node list
\* first, then calls the engine's add_peer up to 3 times and stops at the
\* first success; the status reported for the command is Failed exactly when
\* the local add fails or all attempts fail, and the node stays in the local
\* list when they all fail
C33_AddNodeLocalThenEngine ==
    [][\A answer \in 0..ADD_PEER_ATTEMPTS :
          (proc.cmd.type = "COMMAND_ADD_NODE" /\ pgraft_main_rest(answer))
          => LET local_fails == ~cluster.initialized
                                    \/ cluster.num_nodes >= MAX_NODES
                 reported == pgraft_get_command_status(worker',
                                                       proc.cmd.timestamp).cmd
                 r == pgraft_add_node_system(cluster, go, proc.cmd.node_id,
                                             proc.cmd.port, answer)
             IN  /\ local_fails => /\ reported.status = "FAILED"
                                   /\ cluster' = cluster
                                   /\ go' = go
                 /\ ~local_fails
                      => /\ cluster'.num_nodes = cluster.num_nodes + 1
                         /\ cluster'.nodes[cluster'.num_nodes].id = proc.cmd.node_id
                         /\ r.attempts = IF answer = 0 THEN ADD_PEER_ATTEMPTS
                                         ELSE answer
                         /\ reported.status = "FAILED" <=> answer = 0
                         /\ reported.status = "COMPLETED" <=> answer > 0
                         /\ answer = 0 => go' = go]_vars

\* C34: executing a dequeued Shutdown command sets the worker state to
\* Stopped, makes the status record of that command (the newest one)
\* Completed and ends the loop; after that no command is taken from the
\* queue; and the worker state is never Stopped while a dequeued command is
\* still to be executed
C34_ShutdownStopsWorker ==
    /\ [][(proc.main = "switch" /\ proc'.main # "switch"
              /\ proc.cmd.type = "COMMAND_SHUTDOWN")
            => LET own == (worker.status_tail + MAX_COMMANDS - 1) % MAX_COMMANDS
               IN  /\ worker'.status = "STOPPED"
                   /\ proc'.main = "stopped"
                   /\ worker'.status_commands[own].status = "COMPLETED"]_vars
    /\ [][proc.main = "stopped"
            => /\ proc' = proc
               /\ worker'.status = "STOPPED"
               /\ worker'.command_head = worker.command_head
               /\ worker'.command_count >= worker.command_count
               /\ hist'.dequeued = hist.dequeued]_vars
    /\ [](proc.main = "switch" => worker.status # "STOPPED")

(***************************************************************************)
(* Cleanup of the tracker                                                  *)
(***************************************************************************)
\* The entries of the tracker, from the first position to the last
LogSeq(state) == [i \in 1..state.log_size |-> state.entries[i - 1]]

\* C35: cleanup_before(t) keeps exactly the entries with index >= t, as they
\* were (data, term, committed and applied flags) and in their order, and
\* leaves last_index, commit_index and last_applied alone; a successful
\* append, after a cleanup too, gets last_index + 1, which is larger than
\* the index of every entry in the array
C35_CleanupKeepsNewer ==
    [][/\ LogCalled("cleanup", 0)
          => /\ LogSeq(log_state')
                    = SelectSeq(LogSeq(log_state),
                                LAMBDA e : e.index >= ret'.index)
             /\ log_state'.last_index = log_state.last_index
             /\ log_state'.commit_index = log_state.commit_index
             /\ log_state'.last_applied = log_state.last_applied
       /\ LogCalled("append", 0)
          => /\ log_state'.entries[log_state.log_size].index
                    = log_state.last_index + 1
             /\ \A i \in 1..log_state.log_size :
                    LogSeq(log_state)[i].index < log_state.last_index + 1]_vars

\* A cleanup has removed the first entry and kept the entry with the index it
\* was called with, which is committed and applied
C35_CleanupKeptApplied ==
    /\ ret.op = "cleanup" /\ ret.index = 2
    /\ log_state.log_size >= 1
    /\ log_state.entries[0].index = 2
    /\ log_state.entries[0].committed = 1 /\ log_state.entries[0].applied = 1
    /\ log_state.last_applied = 2

(***************************************************************************)
(* Specification of the three circular buffers under calls that do not     *)
(* overlap: clients queue commands and clean the status buffer, the worker *)
(* takes commands and records their outcome, the engine's callback fills   *)
(* the apply queue and a consumer drains it                                *)
(***************************************************************************)
MaxBufferCalls == 4

\* The payloads handed to the apply queue: the engine's entries alternate
\* between two
ApplyData ==
    {Payload("{", FALSE, {}, "", "", "", "", 0, 0, ""),
     Payload("1", FALSE, {}, "", "", "", "", 0, 3, "")}

NextApplyData ==
    IF hist.calls % 2 = 0 THEN Payload("{", FALSE, {}, "", "", "", "", 0, 0, "")
    ELSE Payload("1", FALSE, {}, "", "", "", "", 0, 3, "")

BufferInit ==
    /\ cluster = InitCluster
    /\ worker = [InitWorker EXCEPT !.status = "RUNNING"]
    /\ kv = EmptyStore
    /\ go = [InitGo EXCEPT !.loaded = TRUE]
    /\ files = InitFiles
    /\ sleep_count = 0
    /\ now = 0
    /\ log_state = InitLogState
    /\ ret = Ret("none", 0, 0, FALSE)
    /\ proc = [main |-> "loop", cmd |-> ZeroCommand]
    /\ hist = [enqueued |-> <<>>, dequeued |-> <<>>, calls |-> 0]

BufferFrame ==
    UNCHANGED <<cluster, kv, go, files, sleep_count, now, log_state>>

BufferCall ==
    /\ hist.calls < MaxBufferCalls
    /\ hist' = [hist EXCEPT !.calls = @ + 1]

\* A client queues a command
buffer_queue_command ==
    LET r == pgraft_queue_command(worker, "COMMAND_ADD_NODE", hist.calls + 1,
                                  "127.0.0.1", 5432, "c1", now)
    IN  /\ BufferCall
        /\ worker' = r.worker
        /\ ret' = Ret("queue_command", hist.calls + 1, IF r.ok THEN 1 ELSE 0, FALSE)
        /\ UNCHANGED proc
        /\ BufferFrame

\* The worker takes the next command and copies it into the status buffer
buffer_dequeue_command ==
    LET d == pgraft_dequeue_command(worker)
    IN  /\ proc.main = "loop"
        /\ d.ok
        /\ worker' = pgraft_add_command_to_status(d.worker, d.cmd)
        /\ proc' = [main |-> "switch", cmd |-> d.cmd]
        /\ ret' = Ret("dequeue_command", d.cmd.node_id, 1, FALSE)
        /\ UNCHANGED hist
        /\ BufferFrame

\* The worker records the outcome of the command it has executed
buffer_update_command_status(status) ==
    /\ proc.main = "switch"
    /\ worker' = pgraft_update_command_status(worker, proc.cmd.timestamp, status,
                     IF status = "FAILED" THEN "failed" ELSE "")
    /\ proc' = [proc EXCEPT !.main = "loop"]
    /\ ret' = Ret("update_command_status", proc.cmd.node_id, 1, FALSE)
    /\ UNCHANGED hist
    /\ BufferFrame

\* A client cleans the status buffer
buffer_remove_completed_commands ==
    /\ BufferCall
    /\ worker.status_count > 0
    /\ worker' = pgraft_remove_completed_commands(worker)
    /\ ret' = Ret("remove_completed", hist.calls + 1, 1, FALSE)
    /\ UNCHANGED proc
    /\ BufferFrame

\* The engine's callback hands a committed entry to the apply queue
buffer_enqueue_apply_entry(data, data_len) ==
    LET raft_index == hist.calls + 1
        r == pgraft_enqueue_apply_entry(worker, raft_index, data, data_len)
    IN  /\ hist.calls < MaxBufferCalls
        /\ worker' = r.worker
        /\ ret' = Ret("enqueue_apply", raft_index, IF r.ok THEN 1 ELSE 0, FALSE)
        /\ hist' = [hist EXCEPT
                       !.calls = @ + 1,
                       !.enqueued = IF r.ok
                                    THEN Append(@, [raft_index |-> raft_index,
                                                    data |-> data,
                                                    data_len |-> data_len])
                                    ELSE @]
        /\ UNCHANGED proc
        /\ BufferFrame

\* The consumer takes the next entry of the apply queue
buffer_dequeue_apply_entry ==
    LET r == pgraft_dequeue_apply_entry(worker)
    IN  /\ r.ok
        /\ worker' = r.worker
        /\ ret' = Ret("dequeue_apply", r.entry.raft_index, 1, FALSE)
        /\ hist' = [hist EXCEPT !.dequeued = Append(@, r.entry)]
        /\ UNCHANGED proc
        /\ BufferFrame

BufferNext ==
    \/ buffer_queue_command
    \/ buffer_dequeue_command
    \/ \E status \in {"COMPLETED", "FAILED"} : buffer_update_command_status(status)
    \/ buffer_remove_completed_commands
    \/ \E data_len \in {APPLY_DATA_SIZE, APPLY_DATA_SIZE + 1} :
           buffer_enqueue_apply_entry(NextApplyData, data_len)
    \/ buffer_dequeue_apply_entry
    \/ tick_clock

BufferSpec == BufferInit /\ [][BufferNext]_vars

(***************************************************************************)
(* Apply queue                                                             *)
(***************************************************************************)
\* The entries waiting in the apply queue, from the head to the tail, by the
\* fields the callback hands over
ApplySeq(w) ==
    [i \in 1..w.apply_count |->
        LET e == w.apply_queue[(w.apply_head + i - 1) % MAX_APPLY_ENTRIES]
        IN  [raft_index |-> e.raft_index, data |-> e.data, data_len |-> e.data_len]]

\* C36: an enqueue onto an apply queue that holds MAX_APPLY_ENTRIES entries,
\* or of a payload longer than the data buffer of an entry, fails and leaves
\* head, tail, count and the stored entries as they were; the entries taken
\* out are the first ones accepted, in the order of their acceptance, with
\* raft_index, data and data_len as handed over, and the queue holds the
\* accepted entries not yet taken out
C36_ApplyQueueBoundedFifo ==
    /\ [][\A data \in ApplyData, data_len \in {APPLY_DATA_SIZE, APPLY_DATA_SIZE + 1} :
             (/\ buffer_enqueue_apply_entry(data, data_len)
              /\ \/ worker.apply_count >= MAX_APPLY_ENTRIES
                 \/ data_len > APPLY_DATA_SIZE)
             => /\ ret'.result = 0
                /\ worker'.apply_head = worker.apply_head
                /\ worker'.apply_tail = worker.apply_tail
                /\ worker'.apply_count = worker.apply_count
                /\ worker'.apply_queue = worker.apply_queue]_vars
    /\ [](LET n == Len(hist.dequeued)
          IN  /\ n <= Len(hist.enqueued)
              /\ \A i \in 1..n :
                     /\ hist.dequeued[i].raft_index = hist.enqueued[i].raft_index
                     /\ hist.dequeued[i].data = hist.enqueued[i].data
                     /\ hist.dequeued[i].data_len = hist.enqueued[i].data_len
              /\ ApplySeq(worker) = SubSeq(hist.enqueued, n + 1, Len(hist.enqueued)))

\* An enqueue has just been refused by a full apply queue whose tail has gone
\* round the array
C36_RefusedAfterWrap ==
    /\ ret.op = "enqueue_apply" /\ ret.result = 0
    /\ worker.apply_count = MAX_APPLY_ENTRIES
    /\ Len(hist.dequeued) >= 1
    /\ Len(hist.enqueued) = MAX_APPLY_ENTRIES + 1

(***************************************************************************)
(* Clean-up of the status buffer                                           *)
(***************************************************************************)
\* C37: after pgraft_remove_completed_commands the status buffer holds, from
\* its head, exactly the records that were neither Completed nor Failed,
\* each once and in their former order, and status_count is their number
C37_RemoveKeepsNonTerminal ==
    [][(ret'.op = "remove_completed" /\ hist'.calls = hist.calls + 1)
        => StatusSeq(worker')
               = SelectSeq(StatusSeq(worker),
                           LAMBDA c : c.status \notin {"COMPLETED", "FAILED"})]_vars

(***************************************************************************)
(* Order of the counters of the tracker                                    *)
(***************************************************************************)
\* C38: in every state the tracker reaches by append, commit, apply,
\* cleanup_before and reset, last_applied <= commit_index <= last_index
C38_CountersOrdered ==
    /\ log_state.last_applied <= log_state.commit_index
    /\ log_state.commit_index <= log_state.last_index

\* The three counters differ: three entries appended, two committed, one
\* applied
C38_CountersApart ==
    /\ 1 <= log_state.last_applied
    /\ log_state.last_applied < log_state.commit_index
    /\ log_state.commit_index < log_state.last_index

(***************************************************************************)
(* Counters of the store                                                   *)
(***************************************************************************)
\* C39: in every state of the store total_operations = puts + deletes + gets;
\* a put, get or delete that returns -1 or leaves through an error (missing
\* key, key or value too long, full store) changes no counter and no entry;
\* compact changes no counter
C39_CountersAddUp ==
    /\ [](kv.total_operations = kv.puts + kv.deletes + kv.gets)
    /\ [][/\ (hist'.calls = hist.calls + 1
                 /\ ret'.op \in {"put", "get", "delete"}
                 /\ (ret'.result = -1 \/ ret'.error))
             => kv' = kv
          /\ (hist'.calls = hist.calls + 1 /\ ret'.op = "compact")
             => /\ kv'.total_operations = kv.total_operations
                /\ kv'.puts = kv.puts
                /\ kv'.deletes = kv.deletes
                /\ kv'.gets = kv.gets]_vars

\* A get of a deleted key has just failed on a store that has counted a put,
\* a get and a delete
C39_FailedGetAfterAllKinds ==
    /\ ret.op = "get" /\ ret.result = -1
    /\ kv.puts >= 1 /\ kv.gets >= 1 /\ kv.deletes >= 1
    /\ kv.num_entries >= 1

(***************************************************************************)
(* Head, count and tail of the three circular buffers                      *)
(***************************************************************************)
\* C40: in every state reached by calls that do not overlap, each of the
\* command queue, the status buffer and the apply queue has
\* 0 <= count <= capacity and tail = (head + count) mod capacity
C40_BuffersConsistent ==
    /\ 0 <= worker.command_count /\ worker.command_count <= MAX_COMMANDS
    /\ worker.command_tail
           = (worker.command_head + worker.command_count) % MAX_COMMANDS
    /\ 0 <= worker.status_count /\ worker.status_count <= MAX_COMMANDS
    /\ worker.status_tail
           = (worker.status_head + worker.status_count) % MAX_COMMANDS
    /\ 0 <= worker.apply_count /\ worker.apply_count <= MAX_APPLY_ENTRIES
    /\ worker.apply_tail
           = (worker.apply_head + worker.apply_count) % MAX_APPLY_ENTRIES

\* Every buffer has given out or dropped a record: the status buffer is full
\* with its head moved on, and the heads of the two queues have moved
C40_AllHeadsMoved ==
    /\ worker.status_count = MAX_COMMANDS /\ worker.status_head # 0
    /\ worker.command_head # 0
    /\ worker.apply_head # 0

====
